---- MODULE Spec2Model ----
(***************************************************************************)
(* Model of the telegram-notifier worker: the notify route (validation,    *)
(* rendering, registration lookup, batched fan-out with per-destination    *)
(* retry) over the registrations table.                                    *)
(*                                                                         *)
(* Strings are sequences of one-character strings, so that escaping,       *)
(* trimming and truncation are computed character by character.            *)
(***************************************************************************)
EXTENDS Integers, Sequences, FiniteSets, TLC

(* ---------------------------------------------------------------- bounds *)

\* Rows the table holds for ("c1", "d1"): any number up to MaxSmallRegs, or
\* MaxRegs, which is more than one batch.
MaxSmallRegs == 2

MaxRegs == 11

\* Largest number of destinations of one call whose sends the messaging
\* provider lets throw (every send of such a destination may throw).
MaxFlaky == 1

\* Number of notify calls the state has room for.
MaxCalls == 2

(* ------------------------------------------------------------- constants *)

BATCH_SIZE == 10

RETRIES == 3

MAX_DESCRIPTION_LENGTH == 500

\* undefined, for a path parameter or a body field compared as a whole.
Absent == "undefined#"

\* undefined, for a body field that is otherwise a sequence of characters.
NoText == <<"undefined#">>

\* A null column value (messageThreadId of a registration for the chat itself).
Null == "null#"

NotifyType ==
  [ProposalCreated |-> "proposal_created",
   ProposalExecuted |-> "proposal_executed",
   ProposalExecutionFailed |-> "proposal_execution_failed",
   ProposalClosed |-> "proposal_closed"]

\* env.NOTIFY_API_KEY
NOTIFY_API_KEY == "key"

(* ------------------------------------------------------- utils: responses *)

respond(status, response) == [status |-> status, body |-> response]

respondError(status, error) == respond(status, [error |-> error])

(* --------------------------------------------------------- utils: escaping *)

\* The grave accent character, which a TLA+ string cannot hold.
Backtick == "GRAVE"

\* The character class of escapeMarkdownV2's regular expression. Inside the
\* class, +-= is a range: it holds every character from "+" to "=".
ReservedChars ==
  {"\\", "_", "*", "[", "]", "(", ")", "~", Backtick, ">", "#",
   "+", ",", "-", ".", "/",
   "0", "1", "2", "3", "4", "5", "6", "7", "8", "9",
   ":", ";", "<", "=",
   "|", "{", "}", "!"}

\* Variant of the replacement without the regex's g flag: only the first
\* match is replaced.
RECURSIVE escapeMarkdownV2_firstOnly(_)
escapeMarkdownV2_firstOnly(s) ==
  IF s = <<>> THEN <<>>
  ELSE IF Head(s) \in ReservedChars
         THEN <<"\\", Head(s)>> \o Tail(s)
         ELSE <<Head(s)>> \o escapeMarkdownV2_firstOnly(Tail(s))

\* text.replace(/[...]/g, '\\$&'): every match gets a backslash before it.
\* The replacement acts on each character by itself, so the text is taken
\* in halves.
RECURSIVE escapeMarkdownV2(_)
escapeMarkdownV2(text) ==
  IF text = <<>> THEN <<>>
  ELSE IF Len(text) = 1
    THEN (IF text[1] \in ReservedChars THEN <<"\\", text[1]>> ELSE text)
    ELSE escapeMarkdownV2(SubSeq(text, 1, Len(text) \div 2))
           \o escapeMarkdownV2(SubSeq(text, Len(text) \div 2 + 1, Len(text)))

(* ----------------------------------------------------- string primitives *)

WhiteSpace == {" ", "\n", "\t", "\r"}

RECURSIVE trimStart(_)
trimStart(s) ==
  IF s # <<>> /\ Head(s) \in WhiteSpace THEN trimStart(Tail(s)) ELSE s

RECURSIVE trimEnd(_)
trimEnd(s) ==
  IF s # <<>> /\ s[Len(s)] \in WhiteSpace
    THEN trimEnd(SubSeq(s, 1, Len(s) - 1))
    ELSE s

\* String.prototype.trim
trim(s) == trimEnd(trimStart(s))

\* String.prototype.slice(0, n)
slice(s, n) == SubSeq(s, 1, IF Len(s) < n THEN Len(s) ELSE n)

(* ------------------------------------------------------ template literals *)

T_Head ==
  <<"_", "[", "P", "r", "o", "p", "o", "s", "a", "l", " ">>

T_LinkMid ==
  <<"]", "(">>

T_CreatedMid ==
  <<")", " ", "i", "s", " ", "o", "p", "e", "n", " ", "f", "o", "r", " ",
    "v", "o", "t", "i", "n", "g", " ", "i", "n", " ", "[">>

T_InMid ==
  <<")", " ", "i", "n", " ", "[">>

T_CreatedTail ==
  <<")", "\\", ".", "_", "\n", "\n", ">", "*">>

T_ExecutedTail ==
  <<")", "\\", " ", "w", "a", "s", " ", "p", "a", "s", "s", "e", "d", " ",
    "a", "n", "d", " ", "e", "x", "e", "c", "u", "t", "e", "d", "\\", ".",
    "_", "\n", "\n", ">", "*">>

T_ExecutionFailedTail ==
  <<")", "\\", " ", "w", "a", "s", " ", "p", "a", "s", "s", "e", "d", " ",
    "b", "u", "t", " ", "f", "a", "i", "l", "e", "d", " ", "t", "o", " ",
    "e", "x", "e", "c", "u", "t", "e", "\\", ".", "_", "\n", "\n", ">", "*">>

T_ClosedTail ==
  <<")", "\\", " ", "w", "a", "s", " ", "r", "e", "j", "e", "c", "t", "e",
    "d", " ", "a", "n", "d", " ", "c", "l", "o", "s", "e", "d", "\\", ".",
    "_", "\n", "\n", ">", "*">>

T_TitleEnd ==
  <<"*", "\n", ">", "\n", ">">>

T_Outcome ==
  <<"\n", ">", "\n", ">", "O", "u", "t", "c", "o", "m", "e", ":", " ", "*">>

T_OutcomeEnd ==
  <<"*">>

T_Undefined ==
  <<"u", "n", "d", "e", "f", "i", "n", "e", "d">>

T_Ellipsis ==
  <<".", ".", ".">>

T_Quote ==
  <<"\n", ">">>

(* ------------------------------------------------------- remove-markdown *)

EmphasisChars == {"*", "_"}

\* Position of the closing delimiter for the emphasis opened at i, or 0:
\* the first j > i + 1 on the same line holding the same delimiter.
closingAt(s, i) ==
  LET J == {j \in (i + 2)..Len(s) :
              /\ s[j] = s[i]
              /\ \A m \in (i + 1)..(j - 1) : s[m] # "\n"}
  IN IF i < Len(s) /\ s[i + 1] \notin WhiteSpace /\ J # {}
       THEN CHOOSE j \in J : \A m \in J : j <= m
       ELSE 0

removeAt(s, i) == SubSeq(s, 1, i - 1) \o SubSeq(s, i + 1, Len(s))

\* The leftmost emphasis from i on loses its two delimiters, and the search
\* goes on behind it.
RECURSIVE stripEmphasis(_, _)
stripEmphasis(s, i) ==
  LET I == {k \in i..Len(s) : s[k] \in EmphasisChars /\ closingAt(s, k) # 0}
  IN IF I = {} THEN s
     ELSE LET k == CHOOSE m \in I : \A n \in I : m <= n
          IN stripEmphasis(removeAt(removeAt(s, closingAt(s, k)), k),
                           closingAt(s, k) - 1)

\* removeMarkdown of the remove-markdown package, for its emphasis rule: a
\* missing description becomes the empty string, and a pair of emphasis
\* delimiters around text is dropped.
removeMarkdown(md) == IF md = NoText THEN <<>> ELSE stripEmphasis(md, 1)

(* ---------------------------------------------------------------- render *)

\* ${x} in a template literal: a string as it is, undefined as "undefined".
interpolate(x) == IF x = NoText THEN T_Undefined ELSE x

\* Variant of the template without the reflow: the description as it is.
quoteLines_none(s) == s

\* x.split('\n').join('\n>'): every line break gets a quote marker behind it; the text is taken in
\* halves.
RECURSIVE quoteLines(_)
quoteLines(s) ==
  IF s = <<>> THEN <<>>
  ELSE IF Len(s) = 1
    THEN (IF s[1] = "\n" THEN T_Quote ELSE s)
    ELSE quoteLines(SubSeq(s, 1, Len(s) \div 2))
           \o quoteLines(SubSeq(s, Len(s) \div 2 + 1, Len(s)))

\* Variant of the cut without the marker: slice(0, MAX_DESCRIPTION_LENGTH).
sanitizeDescription_noEllipsis(proposalDescription) ==
  slice(removeMarkdown(proposalDescription), MAX_DESCRIPTION_LENGTH)

\* let sanitizedDescription = removeMarkdown(...), cut to 500 and "..."
sanitizeDescription(proposalDescription) ==
  LET cut(sanitizedDescription) ==
        IF Len(sanitizedDescription) > MAX_DESCRIPTION_LENGTH
          THEN slice(sanitizedDescription, MAX_DESCRIPTION_LENGTH)
                 \o T_Ellipsis
          ELSE sanitizedDescription
  IN CHOOSE r \in {cut(md) : md \in {removeMarkdown(proposalDescription)}} :
       TRUE

\* Variant of the type without its default: const type = _type.
typeOf_noDefault(body) == body.type

\* const type = _type ?? NotifyType.ProposalCreated
typeOf(body) ==
  IF body.type \in {Absent, Null} THEN NotifyType.ProposalCreated
  ELSE body.type

KnownTypes ==
  {NotifyType.ProposalCreated, NotifyType.ProposalExecuted,
   NotifyType.ProposalExecutionFailed, NotifyType.ProposalClosed}

\* Variant in which the template of proposal_closed has the outcome line too.
OutcomeTypes_withClosed ==
  {NotifyType.ProposalExecuted, NotifyType.ProposalExecutionFailed,
   NotifyType.ProposalClosed}

OutcomeTypes ==
  {NotifyType.ProposalExecuted, NotifyType.ProposalExecutionFailed}

\* winningChoice ? ... : '' tests truthiness: undefined and '' are falsy.
truthy(x) == x # NoText /\ x # <<>>

\* escapeMarkdownV2(undefined) throws a TypeError: the template of a known
\* type escapes proposalId, daoName and proposalTitle unconditionally.
renderThrows(body) ==
  /\ typeOf(body) \in KnownTypes
  /\ \/ body.proposalId = NoText
     \/ body.daoName = NoText
     \/ body.proposalTitle = NoText

\* Variant of the order: the description is escaped first, and the escaped
\* text is cut to MAX_DESCRIPTION_LENGTH.
descriptionSegment_escapeFirst(body) ==
  LET cut(escaped) ==
        IF Len(escaped) > MAX_DESCRIPTION_LENGTH
          THEN slice(escaped, MAX_DESCRIPTION_LENGTH) \o T_Ellipsis
          ELSE escaped
  IN CHOOSE r \in
       {quoteLines(trimmed) :
          trimmed \in
            {trim(short) :
               short \in
                 {cut(escaped) :
                    escaped \in
                      {escapeMarkdownV2(
                         removeMarkdown(body.proposalDescription))}}}} :
       TRUE

\* Lines 44-47 and 58: sanitize, cut, escape, trim, reflow. Each step works
\* on the value of the step before it, which is computed once.
descriptionSegment(body) ==
  CHOOSE r \in
    {quoteLines(trimmed) :
       trimmed \in
         {trim(escaped) :
            escaped \in
              {escapeMarkdownV2(sanitized) :
                 sanitized \in
                   {sanitizeDescription(body.proposalDescription)}}}} :
    TRUE

outcomeSegment(body) ==
  IF typeOf(body) \in OutcomeTypes /\ truthy(body.winningChoice)
    THEN T_Outcome \o escapeMarkdownV2(body.winningChoice) \o T_OutcomeEnd
    ELSE <<>>

renderMid(type) ==
  IF type = NotifyType.ProposalCreated THEN T_CreatedMid ELSE T_InMid

renderTail(type) ==
  CASE type = NotifyType.ProposalCreated -> T_CreatedTail
    [] type = NotifyType.ProposalExecuted -> T_ExecutedTail
    [] type = NotifyType.ProposalExecutionFailed -> T_ExecutionFailedTail
    [] type = NotifyType.ProposalClosed -> T_ClosedTail

\* const text = type === ... ? (template) : ... : ''
render(body) ==
  IF typeOf(body) \notin KnownTypes THEN <<>>
  ELSE T_Head \o escapeMarkdownV2(body.proposalId)
         \o T_LinkMid \o interpolate(body.url)
         \o renderMid(typeOf(body)) \o escapeMarkdownV2(body.daoName)
         \o T_LinkMid \o interpolate(body.daoUrl)
         \o renderTail(typeOf(body)) \o escapeMarkdownV2(body.proposalTitle)
         \o T_TitleEnd \o descriptionSegment(body)
         \o outcomeSegment(body)

(* ----------------------------------------------------------------- state *)

VARIABLES
  DB,             \* the registrations table: its rows in rowid order
  request,        \* per call: the path parameters and the JSON body
  pc,             \* per call: where the handler is
  text,           \* per call: the rendered message
  registrations,  \* per call: the rows the lookup returned
  succeeded,      \* per call: the running count of delivered destinations
  i,              \* per call: the batch loop's offset
  task,           \* per call and row: the state of the row's delivery task
  retry,          \* per call and row: the retry loop's counter
  response,       \* per call: the Response returned, once returned
  fetches,        \* per call and row: sendMessage calls issued so far
  failures,       \* per call: sendMessage calls that threw so far
  lookups,        \* per call: queries run against the table so far
  provider,       \* per destination: the HTTP status sendMessage answers
  update,         \* per webhook request: the secret header and the update
  hpc,            \* per webhook request: where the telegram handler is
  info,           \* per webhook request: the chainId getDaoInfo reported
  reply           \* per webhook request: the Response returned

vars ==
  <<DB, request, pc, text, registrations, succeeded, i, task, retry,
    response, fetches, failures, lookups, provider, update, hpc, info,
    reply>>

\* The state of the telegram handlers.
tvars == <<update, hpc, info, reply>>

\* The state of the notify calls, the table apart.
nvars ==
  <<request, pc, text, registrations, succeeded, i, task, retry, response,
    fetches, failures, lookups>>

\* The webhook requests in flight: two, so that two handlers can overlap.
Handlers == {1, 2}

\* No webhook request has arrived.
NoUpdate == [secret |-> "none"]

NoInfo == "none"

\* No Response has been returned yet.
NoResponse == [status |-> 0, body |-> [pending |-> TRUE]]

NoHandlers ==
  /\ update = [h \in Handlers |-> NoUpdate]
  /\ hpc = [h \in Handlers |-> "off"]
  /\ info = [h \in Handlers |-> NoInfo]
  /\ reply = [h \in Handlers |-> NoResponse]

Calls == 1..MaxCalls

Min(a, b) == IF a < b THEN a ELSE b

(* ---------------------------------------------------------- the database *)

Row(chainId, dao, chatId, messageThreadId) ==
  [chainId |-> chainId, dao |-> dao, chatId |-> chatId,
   messageThreadId |-> messageThreadId]

\* Variant of the query with the chainId condition left out of WHERE.
RECURSIVE selectRegistrations_anyChain(_, _, _)
selectRegistrations_anyChain(rows, chainId, dao) ==
  IF rows = <<>> THEN <<>>
  ELSE (IF Head(rows).dao = dao
          THEN <<[chatId |-> Head(rows).chatId,
                  messageThreadId |-> Head(rows).messageThreadId]>>
          ELSE <<>>) \o selectRegistrations_anyChain(Tail(rows), chainId, dao)

\* Variant of the query with the dao condition left out of WHERE.
RECURSIVE selectRegistrations_anyDao(_, _, _)
selectRegistrations_anyDao(rows, chainId, dao) ==
  IF rows = <<>> THEN <<>>
  ELSE (IF Head(rows).chainId = chainId
          THEN <<[chatId |-> Head(rows).chatId,
                  messageThreadId |-> Head(rows).messageThreadId]>>
          ELSE <<>>) \o selectRegistrations_anyDao(Tail(rows), chainId, dao)

\* SELECT chatId, messageThreadId FROM registrations
\*   WHERE chainId = ?1 AND dao = ?2
RECURSIVE selectRegistrations(_, _, _)
selectRegistrations(rows, chainId, dao) ==
  IF rows = <<>> THEN <<>>
  ELSE (IF Head(rows).chainId = chainId /\ Head(rows).dao = dao
          THEN <<[chatId |-> Head(rows).chatId,
                  messageThreadId |-> Head(rows).messageThreadId]>>
          ELSE <<>>) \o selectRegistrations(Tail(rows), chainId, dao)

(* ---------------------------------------------------------------- notify *)

\* if (!chainId) ... if (!dao) ...: undefined and '' are falsy. The
\* messages quote the parameter's name in grave accents, left out here.
paramsError(req) ==
  IF req.chainId \in {Absent, ""}
    THEN respondError(400, "Missing chainId.")
  ELSE IF req.dao \in {Absent, ""}
    THEN respondError(400, "Missing dao.")
  ELSE NoResponse

\* Variant of the body checks with the type tested before the API key.
bodyError_typeFirst(body) ==
  IF render(body) = <<>>
    THEN respondError(400, "Invalid notification type.")
  ELSE IF body.apiKey # NOTIFY_API_KEY
    THEN respondError(401, "Invalid API key.")
  ELSE NoResponse

\* From the parsed body to the text check: the API key, then the type.
bodyError(body) ==
  IF body.apiKey # NOTIFY_API_KEY
    THEN respondError(401, "Invalid API key.")
  ELSE IF render(body) = <<>>
    THEN respondError(400, "Invalid notification type.")
  ELSE NoResponse

\* Variant of the slice that ends one position early:
\* registrations.slice(i, i + BATCH_SIZE - 1).
batch_short(regs, from) == (from + 1)..Min(from + BATCH_SIZE - 1, Len(regs))

\* Variant of the slice without its end: registrations.slice(i).
batch_unbounded(regs, from) == (from + 1)..Len(regs)

\* registrations.slice(i, i + BATCH_SIZE), as positions in registrations
batch(regs, from) == (from + 1)..Min(from + BATCH_SIZE, Len(regs))

\* Variant of the retry test that allows one attempt more: if (i > 0).
retriesLeft_extra(n) == n > 0

\* Variant of the retry test that gives up one attempt early.
retriesLeft_early(n) == n > 2

\* if (i > 1) continue
retriesLeft(n) == n > 1

\* Variant of the count that leaves the filter out: responses.length.
filterBooleanLength_unfiltered(tasks, positions) == Cardinality(positions)

\* responses.filter(Boolean).length
filterBooleanLength(tasks, positions) ==
  Cardinality({k \in positions : tasks[k] = "true"})

\* Variant of the response that reports a dispatch without any delivery as an
\* error.
notifyResponse_failing(count) ==
  IF count = 0 THEN respondError(500, "No notification delivered.")
  ELSE respond(200, [success |-> TRUE, count |-> count])

\* respond(200, { success: true, count: succeeded })
notifyResponse(count) == respond(200, [success |-> TRUE, count |-> count])

\* Rows of call c whose delivery has seen a send throw.
Flaky(c) ==
  {k \in DOMAIN task[c] : fetches[c][k] > 1 \/ task[c][k] = "false"}

\* Lines 19-25: the path parameters.
NotifyParams(c) ==
  /\ pc[c] = "params"
  /\ IF paramsError(request[c]) # NoResponse
       THEN /\ response' = [response EXCEPT ![c] = paramsError(request[c])]
            /\ pc' = [pc EXCEPT ![c] = "done"]
       ELSE /\ pc' = [pc EXCEPT ![c] = "body"]
            /\ UNCHANGED response
  /\ UNCHANGED <<DB, request, text, registrations, succeeded, i, task,
                 retry, fetches, failures, lookups>>
  /\ UNCHANGED <<tvars, provider>>

\* Variant of the body step that queries the table before it checks the key
\* and the type.
NotifyBody_lookupFirst(c) ==
  /\ pc[c] = "body"
  /\ LET body == request[c].body
     IN IF body.apiKey = NOTIFY_API_KEY /\ renderThrows(body)
          THEN /\ pc' = [pc EXCEPT ![c] = "thrown"]
               /\ UNCHANGED <<response, text, lookups>>
        ELSE IF bodyError(body) # NoResponse
          THEN /\ response' = [response EXCEPT ![c] = bodyError(body)]
               /\ pc' = [pc EXCEPT ![c] = "done"]
               /\ lookups' = [lookups EXCEPT ![c] = @ + 1]
               /\ UNCHANGED text
        ELSE /\ text' = [text EXCEPT ![c] = render(body)]
             /\ pc' = [pc EXCEPT ![c] = "lookup"]
             /\ UNCHANGED <<response, lookups>>
  /\ UNCHANGED <<DB, request, registrations, succeeded, i, task, retry,
                 fetches, failures>>
  /\ UNCHANGED <<tvars, provider>>

\* Lines 27-109: the body, the description, the API key, the text.
NotifyBody(c) ==
  /\ pc[c] = "body"
  /\ LET body == request[c].body
     IN IF body.apiKey = NOTIFY_API_KEY /\ renderThrows(body)
          THEN /\ pc' = [pc EXCEPT ![c] = "thrown"]
               /\ UNCHANGED <<response, text>>
        ELSE IF bodyError(body) # NoResponse
          THEN /\ response' = [response EXCEPT ![c] = bodyError(body)]
               /\ pc' = [pc EXCEPT ![c] = "done"]
               /\ UNCHANGED text
        ELSE /\ text' = [text EXCEPT ![c] = render(body)]
             /\ pc' = [pc EXCEPT ![c] = "lookup"]
             /\ UNCHANGED response
  /\ UNCHANGED <<DB, request, registrations, succeeded, i, task, retry,
                 fetches, failures, lookups>>
  /\ UNCHANGED <<tvars, provider>>

\* Variant of the lookup that remembers requests: a call whose request
\* another call has already looked up finds no registration to send to.
NotifyLookup_deduplicating(c) ==
  /\ pc[c] = "lookup"
  /\ LET results ==
           IF \E o \in Calls \ {c} :
                request[o] = request[c] /\ lookups[o] > 0
             THEN <<>>
             ELSE selectRegistrations(DB, request[c].chainId,
                                      request[c].dao)
     IN /\ registrations' = [registrations EXCEPT ![c] = results]
        /\ task' = [task EXCEPT ![c] = [k \in 1..Len(results) |-> "none"]]
        /\ retry' = [retry EXCEPT ![c] = [k \in 1..Len(results) |-> 0]]
        /\ fetches' = [fetches EXCEPT ![c] = [k \in 1..Len(results) |-> 0]]
  /\ lookups' = [lookups EXCEPT ![c] = @ + 1]
  /\ succeeded' = [succeeded EXCEPT ![c] = 0]
  /\ i' = [i EXCEPT ![c] = 0]
  /\ pc' = [pc EXCEPT ![c] = "loop"]
  /\ UNCHANGED <<DB, request, text, response, failures>>
  /\ UNCHANGED <<tvars, provider>>

\* Lines 111-119: the lookup, and the loop's initial state.
NotifyLookup(c) ==
  /\ pc[c] = "lookup"
  /\ LET results ==
           selectRegistrations(DB, request[c].chainId, request[c].dao)
     IN /\ registrations' = [registrations EXCEPT ![c] = results]
        /\ task' = [task EXCEPT ![c] = [k \in 1..Len(results) |-> "none"]]
        /\ retry' = [retry EXCEPT ![c] = [k \in 1..Len(results) |-> 0]]
        /\ fetches' = [fetches EXCEPT ![c] = [k \in 1..Len(results) |-> 0]]
  /\ lookups' = [lookups EXCEPT ![c] = @ + 1]
  /\ succeeded' = [succeeded EXCEPT ![c] = 0]
  /\ i' = [i EXCEPT ![c] = 0]
  /\ pc' = [pc EXCEPT ![c] = "loop"]
  /\ UNCHANGED <<DB, request, text, response, failures>>
  /\ UNCHANGED <<tvars, provider>>

\* Variant of the batch that reads the table again: a task whose row is no
\* longer registered ends without a send.
NotifyBatch_onlyRegistered(c) ==
  /\ pc[c] = "loop"
  /\ i[c] < Len(registrations[c])
  /\ LET positions == batch(registrations[c], i[c])
         gone == {k \in positions :
                    \A n \in DOMAIN DB : DB[n] # registrations[c][k]}
     IN /\ task' = [task EXCEPT ![c] =
                      [k \in DOMAIN @ |->
                         IF k \in gone THEN "false"
                         ELSE IF k \in positions THEN "fetch" ELSE @[k]]]
        /\ retry' = [retry EXCEPT ![c] =
                       [k \in DOMAIN @ |->
                          IF k \in positions THEN RETRIES ELSE @[k]]]
        /\ fetches' = [fetches EXCEPT ![c] =
                         [k \in DOMAIN @ |->
                            IF k \in positions \ gone
                              THEN @[k] + 1 ELSE @[k]]]
  /\ pc' = [pc EXCEPT ![c] = "await"]
  /\ UNCHANGED <<DB, request, text, registrations, succeeded, i, response,
                 failures, lookups>>
  /\ UNCHANGED <<tvars, provider>>

\* Lines 119-145: the next batch; every task of it runs to its first fetch.
NotifyBatch(c) ==
  /\ pc[c] = "loop"
  /\ i[c] < Len(registrations[c])
  /\ LET positions == batch(registrations[c], i[c])
     IN /\ task' = [task EXCEPT ![c] =
                      [k \in DOMAIN @ |->
                         IF k \in positions THEN "fetch" ELSE @[k]]]
        /\ retry' = [retry EXCEPT ![c] =
                       [k \in DOMAIN @ |->
                          IF k \in positions THEN RETRIES ELSE @[k]]]
        /\ fetches' = [fetches EXCEPT ![c] =
                         [k \in DOMAIN @ |->
                            IF k \in positions THEN @[k] + 1 ELSE @[k]]]
  /\ pc' = [pc EXCEPT ![c] = "await"]
  /\ UNCHANGED <<DB, request, text, registrations, succeeded, i, response,
                 failures, lookups>>
  /\ UNCHANGED <<tvars, provider>>

\* Variant of the success path without its return: the retry loop goes on
\* after a fetch that resolved.
FetchResolves_noReturn(c, k) ==
  /\ pc[c] = "await"
  /\ k \in DOMAIN task[c]
  /\ task[c][k] = "fetch"
  /\ IF retry[c][k] > 1
       THEN /\ retry' = [retry EXCEPT ![c][k] = @ - 1]
            /\ fetches' = [fetches EXCEPT ![c][k] = @ + 1]
            /\ UNCHANGED task
       ELSE /\ task' = [task EXCEPT ![c][k] = "true"]
            /\ UNCHANGED <<retry, fetches>>
  /\ UNCHANGED <<DB, request, pc, text, registrations, succeeded, i,
                 response, failures, lookups>>
  /\ UNCHANGED <<tvars, provider>>

\* Variant of the success path that inspects the response: after a fetch
\* that resolved with a status other than 200 the task goes the way of the
\* catch branch (if (!response.ok) throw).
FetchResolves_checksOk(c, k) ==
  /\ pc[c] = "await"
  /\ k \in DOMAIN task[c]
  /\ task[c][k] = "fetch"
  /\ LET d == <<registrations[c][k].chatId,
                registrations[c][k].messageThreadId>>
     IN IF provider[d] = 200
          THEN /\ task' = [task EXCEPT ![c][k] = "true"]
               /\ UNCHANGED <<retry, fetches>>
          ELSE IF retriesLeft(retry[c][k])
            THEN /\ retry' = [retry EXCEPT ![c][k] = @ - 1]
                 /\ fetches' = [fetches EXCEPT ![c][k] = @ + 1]
                 /\ UNCHANGED task
            ELSE /\ task' = [task EXCEPT ![c][k] = "false"]
                 /\ UNCHANGED <<retry, fetches>>
  /\ UNCHANGED <<DB, request, pc, text, registrations, succeeded, i,
                 response, failures, lookups>>
  /\ UNCHANGED <<tvars, provider>>

\* Lines 146-151: a fetch resolves, with any status; the task returns true.
FetchResolves(c, k) ==
  /\ pc[c] = "await"
  /\ k \in DOMAIN task[c]
  /\ task[c][k] = "fetch"
  /\ task' = [task EXCEPT ![c][k] = "true"]
  /\ UNCHANGED <<DB, request, pc, text, registrations, succeeded, i, retry,
                 response, fetches, failures, lookups>>
  /\ UNCHANGED <<tvars, provider>>

\* Variant of the catch branch that rethrows once the retries are used up:
\* Promise.all rejects and the call ends without a response.
FetchThrows_rethrows(c, k) ==
  /\ pc[c] = "await"
  /\ k \in DOMAIN task[c]
  /\ task[c][k] = "fetch"
  /\ k \in Flaky(c) \/ Cardinality(Flaky(c)) < MaxFlaky
  /\ IF retriesLeft(retry[c][k])
       THEN /\ retry' = [retry EXCEPT ![c][k] = @ - 1]
            /\ fetches' = [fetches EXCEPT ![c][k] = @ + 1]
            /\ UNCHANGED <<task, pc>>
       ELSE /\ task' = [task EXCEPT ![c][k] = "false"]
            /\ pc' = [pc EXCEPT ![c] = "thrown"]
            /\ UNCHANGED <<retry, fetches>>
  /\ failures' = [failures EXCEPT ![c] = @ + 1]
  /\ UNCHANGED <<DB, request, text, registrations, succeeded, i, response,
                 lookups>>
  /\ UNCHANGED <<tvars, provider>>

\* Variant of the catch branch that does what its comment says ("log and
\* remove webhook"): it deletes the destination's rows once the retries are
\* used up.
FetchThrows_unregisters(c, k) ==
  /\ pc[c] = "await"
  /\ k \in DOMAIN task[c]
  /\ task[c][k] = "fetch"
  /\ k \in Flaky(c) \/ Cardinality(Flaky(c)) < MaxFlaky
  /\ IF retriesLeft(retry[c][k])
       THEN /\ retry' = [retry EXCEPT ![c][k] = @ - 1]
            /\ fetches' = [fetches EXCEPT ![c][k] = @ + 1]
            /\ UNCHANGED <<task, DB>>
       ELSE /\ task' = [task EXCEPT ![c][k] = "false"]
            /\ DB' = SelectSeq(DB, LAMBDA row :
                 ~(/\ row.chatId = registrations[c][k].chatId
                   /\ row.messageThreadId
                        = registrations[c][k].messageThreadId))
            /\ UNCHANGED <<retry, fetches>>
  /\ failures' = [failures EXCEPT ![c] = @ + 1]
  /\ UNCHANGED <<request, pc, text, registrations, succeeded, i, response,
                 lookups>>
  /\ UNCHANGED <<tvars, provider>>

\* Lines 152-164: a fetch throws; the task fetches again or returns false.
FetchThrows(c, k) ==
  /\ pc[c] = "await"
  /\ k \in DOMAIN task[c]
  /\ task[c][k] = "fetch"
  /\ k \in Flaky(c) \/ Cardinality(Flaky(c)) < MaxFlaky
  /\ IF retriesLeft(retry[c][k])
       THEN /\ retry' = [retry EXCEPT ![c][k] = @ - 1]
            /\ fetches' = [fetches EXCEPT ![c][k] = @ + 1]
            /\ UNCHANGED task
       ELSE /\ task' = [task EXCEPT ![c][k] = "false"]
            /\ UNCHANGED <<retry, fetches>>
  /\ failures' = [failures EXCEPT ![c] = @ + 1]
  /\ UNCHANGED <<DB, request, pc, text, registrations, succeeded, i,
                 response, lookups>>
  /\ UNCHANGED <<tvars, provider>>

\* Variant of the await that goes on as soon as one task of the batch has
\* settled (Promise.race in place of Promise.all).
NotifyBatchDone_race(c) ==
  /\ pc[c] = "await"
  /\ \E k \in batch(registrations[c], i[c]) : task[c][k] \in {"true", "false"}
  /\ succeeded' = [succeeded EXCEPT ![c] =
       @ + filterBooleanLength(task[c], batch(registrations[c], i[c]))]
  /\ i' = [i EXCEPT ![c] = @ + BATCH_SIZE]
  /\ pc' = [pc EXCEPT ![c] = "loop"]
  /\ UNCHANGED <<DB, request, text, registrations, task, retry, response,
                 fetches, failures, lookups>>
  /\ UNCHANGED <<tvars, provider>>

\* Variant of the count kept in one counter outside the handler, which every
\* call in progress adds to.
NotifyBatchDone_sharedCount(c) ==
  /\ pc[c] = "await"
  /\ \A k \in batch(registrations[c], i[c]) : task[c][k] \in {"true", "false"}
  /\ succeeded' = [d \in Calls |->
       succeeded[d]
         + filterBooleanLength(task[c], batch(registrations[c], i[c]))]
  /\ i' = [i EXCEPT ![c] = @ + BATCH_SIZE]
  /\ pc' = [pc EXCEPT ![c] = "loop"]
  /\ UNCHANGED <<DB, request, text, registrations, task, retry, response,
                 fetches, failures, lookups>>
  /\ UNCHANGED <<tvars, provider>>

\* Lines 122, 169, 119: Promise.all settles; count, and step the loop.
NotifyBatchDone(c) ==
  /\ pc[c] = "await"
  /\ \A k \in batch(registrations[c], i[c]) : task[c][k] \in {"true", "false"}
  /\ succeeded' = [succeeded EXCEPT ![c] =
       @ + filterBooleanLength(task[c], batch(registrations[c], i[c]))]
  /\ i' = [i EXCEPT ![c] = @ + BATCH_SIZE]
  /\ pc' = [pc EXCEPT ![c] = "loop"]
  /\ UNCHANGED <<DB, request, text, registrations, task, retry, response,
                 fetches, failures, lookups>>
  /\ UNCHANGED <<tvars, provider>>

\* Lines 119, 172-175: the loop is over; the response.
NotifyReturn(c) ==
  /\ pc[c] = "loop"
  /\ ~(i[c] < Len(registrations[c]))
  /\ response' = [response EXCEPT ![c] = notifyResponse(succeeded[c])]
  /\ pc' = [pc EXCEPT ![c] = "done"]
  /\ UNCHANGED <<DB, request, text, registrations, succeeded, i, task,
                 retry, fetches, failures, lookups>>
  /\ UNCHANGED <<tvars, provider>>

(* ------------------------------------------------------- initial states *)

\* The table: two rows of other DAOs around n rows of ("c1", "d1"), two
\* destinations per chat (the chat itself, then its topic 7).
TableOf(n) ==
  <<Row("c2", "d1", 900, Null)>>
    \o [k \in 1..n |->
          Row("c1", "d1", 100 + ((k + 1) \div 2),
              IF k % 2 = 1 THEN Null ELSE "7")]
    \o <<Row("c1", "d2", 901, "7")>>

Tables == {TableOf(n) : n \in (0..MaxSmallRegs) \cup {MaxRegs}}

BodyOf(type, apiKey, proposalTitle) ==
  [type |-> type, apiKey |-> apiKey,
   daoName |-> <<"D", "-", "1">>,
   proposalTitle |-> proposalTitle,
   proposalDescription |-> <<"*", "a", "*", "\n", "b", ".">>,
   proposalId |-> <<"A", "4">>,
   daoUrl |-> <<"u">>,
   url |-> <<"v">>,
   winningChoice |-> <<"Y">>]

\* The type of a request: absent (handled as proposal_created), a known
\* type whose message has an outcome line, and a type outside NotifyType.
Types == {Absent, NotifyType.ProposalExecuted, "bogus"}

Requests ==
  [chainId : {Absent, "c1", "c2"},
   dao : {Absent, "d1", "d2"},
   body : {BodyOf(t, key, title) :
             t \in Types, key \in {NOTIFY_API_KEY, "wrong"},
             title \in {NoText, <<"T", "!">>}}]

\* A call that is never made.
NoRequest ==
  [chainId |-> Absent, dao |-> Absent,
   body |-> BodyOf(Absent, "wrong", NoText)]

\* The statuses tried for the answer of api.telegram.org to sendMessage: ok,
\* the bot was removed from the chat, too many requests.
Statuses == {200, 403, 429}

\* The destinations the rows of a table register.
DestinationsOf(rows) ==
  {<<rows[n].chatId, rows[n].messageThreadId>> : n \in DOMAIN rows}

\* The provider accepts every message.
AllOk(rows) == [d \in DestinationsOf(rows) |-> 200]

\* One notify call, for any request, on any of the tables.
Init ==
  /\ DB \in Tables
  /\ \E req \in Requests :
       request = [c \in Calls |-> IF c = 1 THEN req ELSE NoRequest]
  /\ pc = [c \in Calls |-> IF c = 1 THEN "params" ELSE "off"]
  /\ text = [c \in Calls |-> <<>>]
  /\ registrations = [c \in Calls |-> <<>>]
  /\ succeeded = [c \in Calls |-> 0]
  /\ i = [c \in Calls |-> 0]
  /\ task = [c \in Calls |-> <<>>]
  /\ retry = [c \in Calls |-> <<>>]
  /\ response = [c \in Calls |-> NoResponse]
  /\ fetches = [c \in Calls |-> <<>>]
  /\ failures = [c \in Calls |-> 0]
  /\ lookups = [c \in Calls |-> 0]
  /\ provider = AllOk(DB)
  /\ NoHandlers

\* A step of a notify call.
NotifyNext ==
  \E c \in Calls :
    \/ NotifyParams(c)
    \/ NotifyBody(c)
    \/ NotifyLookup(c)
    \/ NotifyBatch(c)
    \/ \E k \in DOMAIN task[c] : FetchResolves(c, k)
    \/ \E k \in DOMAIN task[c] : FetchThrows(c, k)
    \/ NotifyBatchDone(c)
    \/ NotifyReturn(c)

Next == NotifyNext

Spec == Init /\ [][Next]_vars

(* ---------------------------------------------------- delivery vocabulary *)

\* The state machine of one destination's delivery: Pending until a send
\* succeeds (Success) or the third send fails (Failed).
Success(c, k) == task[c][k] = "true"

Failed(c, k) == task[c][k] = "false"

Terminal(c, k) == Success(c, k) \/ Failed(c, k)

Destinations(c) == DOMAIN task[c]

Succeeded(c) == {k \in Destinations(c) : Success(c, k)}

FailedSet(c) == {k \in Destinations(c) : Failed(c, k)}

InFlight(c) == {k \in Destinations(c) : task[c][k] = "fetch"}

\* The batch a position of the lookup result falls in, counted from 0.
BatchIndex(k) == (k - 1) \div BATCH_SIZE

Returned200(c) == pc[c] = "done" /\ response[c].status = 200

ValidationError(c) == pc[c] = "done" /\ response[c].status \in {400, 401}

\* Rows of the table registered for the call's (chainId, dao).
Matching(c) ==
  {n \in DOMAIN DB :
     DB[n].chainId = request[c].chainId /\ DB[n].dao = request[c].dao}

(* ---------------------------------------------------------------- claims *)

\* C1: the count a notify call returns is the number of its destinations
\* whose delivery ended in Success, and lies between 0 and the number of
\* registrations the lookup returned.
C1_CountIsSuccesses ==
  \A c \in Calls :
    Returned200(c) =>
      /\ response[c].body.count = Cardinality(Succeeded(c))
      /\ response[c].body.count \in 0..Len(registrations[c])

\* C1 witness: a call over two batches has returned with some destinations
\* delivered and one failed.
C1_Witness ==
  /\ Returned200(1)
  /\ Len(registrations[1]) > BATCH_SIZE
  /\ FailedSet(1) # {}
  /\ response[1].body.count = Len(registrations[1]) - 1

\* One step seen from every destination: what may change, and from where.
C2_Step ==
  \A c \in Calls :
    \A k \in Destinations(c) \cap DOMAIN task'[c] :
      /\ fetches'[c][k] > fetches[c][k] => ~Terminal(c, k)
      /\ fetches'[c][k] \in {fetches[c][k], fetches[c][k] + 1}
      /\ Terminal(c, k) =>
           task'[c][k] = task[c][k] /\ fetches'[c][k] = fetches[c][k]
      /\ task[c][k] = "fetch" /\ task'[c][k] = "false" =>
           fetches[c][k] = RETRIES /\ failures'[c] = failures[c] + 1
      /\ task[c][k] = "fetch" /\ task'[c][k] = "true" =>
           failures'[c] = failures[c]
      /\ task'[c][k] \in {"true", "false"} =>
           fetches'[c][k] \in 1..RETRIES
      /\ task'[c][k] = "false" => fetches'[c][k] = RETRIES

\* C2: a send is issued for a destination only while it is Pending; Success
\* and Failed are final; a destination is Failed only after exactly RETRIES
\* failed sends, and every settled destination has had 1 to RETRIES sends.
C2_DestinationMachine == [][C2_Step]_vars

\* C2 witness: a destination is Failed after its third send.
C2_Witness ==
  \E k \in Destinations(1) : Failed(1, k) /\ fetches[1][k] = RETRIES

\* C3: a destination that used up its attempts does not end the dispatch:
\* the call goes on, returns 200 only once every destination has been
\* attempted and has settled, and leaves only the failed ones out of count.
C3_FailureDoesNotAbort ==
  \A c \in Calls :
    FailedSet(c) # {} =>
      /\ pc[c] \in {"await", "loop", "done"}
      /\ pc[c] = "done" =>
           /\ response[c].status = 200
           /\ \A k \in Destinations(c) : fetches[c][k] >= 1 /\ Terminal(c, k)
           /\ response[c].body.count
                = Len(registrations[c]) - Cardinality(FailedSet(c))

\* C3 witness: a destination of the first batch failed, and every other one
\* of that batch and the one of the second batch was delivered.
C3_Witness ==
  /\ Returned200(1)
  /\ Len(registrations[1]) = BATCH_SIZE + 1
  /\ FailedSet(1) = {2}
  /\ Succeeded(1) = Destinations(1) \ {2}
  /\ response[1].body.count = BATCH_SIZE

\* C4: at most BATCH_SIZE sends of a call are in flight at any time.
C4_InFlightBound ==
  \A c \in Calls : Cardinality(InFlight(c)) <= BATCH_SIZE

\* C4 witness: a full batch is in flight while a registration waits.
C4_Witness ==
  /\ Cardinality(InFlight(1)) = BATCH_SIZE
  /\ \E k \in Destinations(1) : task[1][k] = "none"

\* C5: no send is issued for a destination while a destination of an
\* earlier batch has not settled.
C5_BatchBarrier ==
  \A c \in Calls :
    \A k \in Destinations(c) :
      fetches[c][k] > 0 =>
        \A j \in Destinations(c) :
          BatchIndex(j) < BatchIndex(k) => Terminal(c, j)

\* C5 witness: the second batch is in flight after a destination of the
\* first batch went through its retries.
C5_Witness ==
  \E k, j \in Destinations(1) :
    /\ BatchIndex(j) < BatchIndex(k)
    /\ task[1][k] = "fetch"
    /\ fetches[1][j] = RETRIES

\* C6: a call that returned a validation error (400 or 401) has run no
\* query against the table and issued no send.
C6_ErrorsShortCircuit ==
  \A c \in Calls :
    ValidationError(c) =>
      /\ lookups[c] = 0
      /\ registrations[c] = <<>>
      /\ \A k \in DOMAIN fetches[c] : fetches[c][k] = 0

\* C6 witness: a call with a wrong API key got 401 although the table holds
\* registrations for its DAO.
C6_Witness ==
  /\ ValidationError(1)
  /\ response[1].status = 401
  /\ Cardinality(Matching(1)) > BATCH_SIZE

\* C7: a call that got as far as the lookup returns nothing but 200 with
\* success: true, and count 0 when every destination failed.
C7_AlwaysSuccessPastValidation ==
  \A c \in Calls :
    lookups[c] > 0 =>
      /\ pc[c] # "thrown"
      /\ response[c] # NoResponse =>
           /\ response[c].status = 200
           /\ response[c].body.success = TRUE
           /\ FailedSet(c) = Destinations(c) => response[c].body.count = 0

\* C7 witness: the call returned after its only destination failed.
C7_Witness ==
  /\ Returned200(1)
  /\ Destinations(1) # {}
  /\ FailedSet(1) = Destinations(1)
  /\ response[1] = [status |-> 200, body |-> [success |-> TRUE, count |-> 0]]

C9_OneSendEach ==
  \A c \in Calls :
    Returned200(c) /\ failures[c] = 0 =>
      /\ \A k \in Destinations(c) : fetches[c][k] = 1
      /\ response[c].body.count = Len(registrations[c])

\* C9 witness: a call over two batches returned without a failed send.
C9_Witness ==
  /\ Returned200(1)
  /\ failures[1] = 0
  /\ Len(registrations[1]) > BATCH_SIZE
  /\ response[1].body.count = Len(registrations[1])

\* C10: a valid call for a (chainId, dao) without a row in the table returns
\* 200 with count 0 and issues no send.
C10_NoRegistrations ==
  \A c \in Calls :
    pc[c] = "done" /\ lookups[c] > 0 /\ Matching(c) = {} =>
      /\ response[c] = [status |-> 200,
                        body |-> [success |-> TRUE, count |-> 0]]
      /\ \A k \in DOMAIN fetches[c] : fetches[c][k] = 0

\* C10 witness: such a call returned while the table holds rows of the same
\* DAO address on another chain.
C10_Witness ==
  /\ pc[1] = "done"
  /\ lookups[1] > 0
  /\ Matching(1) = {}
  /\ \E n \in DOMAIN DB : DB[n].dao = request[1].dao
  /\ response[1].status = 200

\* The destination a send of call c for position k goes to.
Destination(c, k) ==
  <<registrations[c][k].chatId, registrations[c][k].messageThreadId>>

\* The destination a row of the table registers.
RowDestination(row) == <<row.chatId, row.messageThreadId>>

\* C11: the sends of a call go to exactly the destinations registered for its
\* (chainId, dao): every send goes to the destination of a matching row, and
\* a returned call has sent to the destination of every matching row.
C11_ExactDestinations ==
  \A c \in Calls :
    /\ \A k \in Destinations(c) :
         fetches[c][k] > 0 =>
           \E n \in Matching(c) : RowDestination(DB[n]) = Destination(c, k)
    /\ Returned200(c) =>
         /\ Len(registrations[c]) = Cardinality(Matching(c))
         /\ \A n \in Matching(c) :
              \E k \in Destinations(c) :
                /\ Destination(c, k) = RowDestination(DB[n])
                /\ fetches[c][k] >= 1

\* C11 witness: a call for ("c1", "d1") returned after sending to both of
\* its destinations, while the table holds a chat registered for the same
\* DAO address on another chain, and one for another DAO, which got nothing.
C11_Witness ==
  /\ Returned200(1)
  /\ Cardinality(Matching(1)) = 2
  /\ \A k \in Destinations(1) : fetches[1][k] >= 1
  /\ \E n \in DOMAIN DB \ Matching(1) :
       DB[n].dao = request[1].dao /\ DB[n].chainId # request[1].chainId
  /\ \E n \in DOMAIN DB \ Matching(1) :
       DB[n].dao # request[1].dao /\ DB[n].chainId = request[1].chainId

\* The error of the earliest failing validation step, or NoResponse.
FirstFailure(req) ==
  IF req.chainId \in {Absent, ""}
    THEN [status |-> 400, body |-> [error |-> "Missing chainId."]]
  ELSE IF req.dao \in {Absent, ""}
    THEN [status |-> 400, body |-> [error |-> "Missing dao."]]
  ELSE IF req.body.apiKey # NOTIFY_API_KEY
    THEN [status |-> 401, body |-> [error |-> "Invalid API key."]]
  ELSE IF req.body.type \notin
            {Absent, Null, "proposal_created", "proposal_executed",
             "proposal_execution_failed", "proposal_closed"}
    THEN [status |-> 400, body |-> [error |-> "Invalid notification type."]]
  ELSE NoResponse

\* C13: a call that returned an error returned the error of the earliest
\* failing step in the order chainId, dao, API key, type; a call none of
\* whose steps fails returned no error.
C13_ValidationOrder ==
  \A c \in Calls :
    pc[c] = "done" =>
      IF FirstFailure(request[c]) # NoResponse
        THEN response[c] = FirstFailure(request[c])
        ELSE response[c].status = 200

\* C13 witness: a request with a wrong API key and an unknown type got 401.
C13_Witness ==
  /\ pc[1] = "done"
  /\ request[1].chainId # Absent /\ request[1].dao # Absent
  /\ request[1].body.apiKey # NOTIFY_API_KEY
  /\ request[1].body.type = "bogus"
  /\ response[1].status = 401

(* ------------------------------------------ validation and rendering alone *)

\* Longest string tried in a body field.
MaxLen == 3

\* Characters tried in a body field: a letter, reserved characters the
\* templates hold ("*", ")", ".", "\\") and do not hold ("!"), white space.
Alphabet == {"a", "!", "\\", "*", ")", ".", " ", "\n"}

RECURSIVE Strings(_)
Strings(n) ==
  IF n = 0 THEN {<<>>}
  ELSE Strings(n - 1)
         \cup {Append(s, ch) : s \in Strings(n - 1), ch \in Alphabet}

Fields ==
  {"proposalId", "daoName", "daoUrl", "url", "proposalTitle",
   "proposalDescription", "winningChoice"}

\* Values of type: absent, null, the members of NotifyType, other strings.
AllTypes ==
  {Absent, Null, "", "bogus", "PROPOSAL_CREATED"} \cup KnownTypes

\* One call whose body has one field set to any string, or left out.
InitRender ==
  /\ DB = TableOf(1)
  /\ \E t \in AllTypes, f \in Fields, s \in Strings(MaxLen) \cup {NoText} :
       request =
         [c \in Calls |->
            IF c = 1
              THEN [chainId |-> "c1", dao |-> "d1",
                    body |-> [BodyOf(t, NOTIFY_API_KEY, <<"T", "!">>)
                                EXCEPT ![f] = s]]
              ELSE NoRequest]
  /\ pc = [c \in Calls |-> IF c = 1 THEN "params" ELSE "off"]
  /\ text = [c \in Calls |-> <<>>]
  /\ registrations = [c \in Calls |-> <<>>]
  /\ succeeded = [c \in Calls |-> 0]
  /\ i = [c \in Calls |-> 0]
  /\ task = [c \in Calls |-> <<>>]
  /\ retry = [c \in Calls |-> <<>>]
  /\ response = [c \in Calls |-> NoResponse]
  /\ fetches = [c \in Calls |-> <<>>]
  /\ failures = [c \in Calls |-> 0]
  /\ lookups = [c \in Calls |-> 0]
  /\ provider = AllOk(DB)
  /\ NoHandlers

\* The call up to its text.
RenderNext == \E c \in Calls : NotifyParams(c) \/ NotifyBody(c)

SpecRender == InitRender /\ [][RenderNext]_vars

\* s holds p as a run of consecutive characters.
Contains(s, p) ==
  \E at \in 0..(Len(s) - Len(p)) :
    \A n \in 1..Len(p) : s[at + n] = p[n]

PhraseCreated ==
  <<" ", "i", "s", " ", "o", "p", "e", "n", " ", "f", "o", "r", " ", "v",
    "o", "t", "i", "n", "g", " ", "i", "n", " ">>

PhraseExecuted ==
  <<" ", "w", "a", "s", " ", "p", "a", "s", "s", "e", "d", " ", "a", "n",
    "d", " ", "e", "x", "e", "c", "u", "t", "e", "d">>

PhraseExecutionFailed ==
  <<" ", "w", "a", "s", " ", "p", "a", "s", "s", "e", "d", " ", "b", "u",
    "t", " ", "f", "a", "i", "l", "e", "d", " ", "t", "o", " ", "e", "x",
    "e", "c", "u", "t", "e">>

PhraseClosed ==
  <<" ", "w", "a", "s", " ", "r", "e", "j", "e", "c", "t", "e", "d", " ",
    "a", "n", "d", " ", "c", "l", "o", "s", "e", "d">>

\* The phrase that tells a kind's template from the others'.
PhraseOf(kind) ==
  CASE kind = "proposal_created" -> PhraseCreated
    [] kind = "proposal_executed" -> PhraseExecuted
    [] kind = "proposal_execution_failed" -> PhraseExecutionFailed
    [] kind = "proposal_closed" -> PhraseClosed

Kinds ==
  {"proposal_created", "proposal_executed", "proposal_execution_failed",
   "proposal_closed"}

\* C14: a request with a valid key whose type is absent is rendered as
\* proposal_created, one whose type is a member of NotifyType with that
\* kind's template and no other, and any other type gets 400 "Invalid
\* notification type.".
C14_ClosedTypeSet ==
  \A c \in Calls :
    pc[c] \in {"lookup", "done"} =>
      LET t == request[c].body.type
          kind == IF t \in {Absent, Null} THEN "proposal_created" ELSE t
      IN IF kind \in Kinds
           THEN /\ pc[c] = "lookup"
                /\ \A k \in Kinds :
                     Contains(text[c], PhraseOf(k)) <=> k = kind
           ELSE /\ pc[c] = "done"
                /\ response[c] = [status |-> 400,
                     body |-> [error |-> "Invalid notification type."]]

\* C14 witness: a request without a type was rendered as proposal_created.
C14_Witness ==
  /\ pc[1] = "lookup"
  /\ request[1].body.type = Absent
  /\ Contains(text[1], PhraseCreated)

(* ------------------------------------------------ reserved markup characters *)

\* The reserved set of the markup dialect: \ _ * [ ] ( ) ~ (grave) > # + - =
\* | { } . !
MarkupReserved ==
  {"\\", "_", "*", "[", "]", "(", ")", "~", Backtick, ">", "#", "+", "-",
   "=", "|", "{", "}", ".", "!"}

\* The number of consecutive backslashes of s that end just before p.
RECURSIVE RunBefore(_, _)
RunBefore(s, p) ==
  IF p > 1 /\ s[p - 1] = "\\" THEN 1 + RunBefore(s, p - 1) ELSE 0

\* The backslash at p escapes the character after it: reading from the left,
\* a backslash takes the next character with it, so the backslashes of a run
\* pair up.
Escaping(s, p) ==
  s[p] = "\\" /\ p < Len(s) /\ RunBefore(s, p) % 2 = 0

Escaped(s, p) == p > 1 /\ s[p - 1] = "\\" /\ Escaping(s, p - 1)

\* The positions of s whose character stands for itself as markup.
UnescapedAt(s) ==
  {p \in 1..Len(s) : ~Escaping(s, p) /\ ~Escaped(s, p)}

Occurrences(s, ch) == Cardinality({p \in 1..Len(s) : s[p] = ch})

ReservedFree(s) == \A p \in 1..Len(s) : s[p] \notin MarkupReserved

HasOutcome(body) ==
  /\ body.type \in {"proposal_executed", "proposal_execution_failed"}
  /\ body.winningChoice \notin {NoText, <<>>}

\* Line breaks of the description as the message shows it: those of the
\* sanitized text without its leading and trailing white space.
LineBreaks(body) ==
  Occurrences(trim(sanitizeDescription(body.proposalDescription)), "\n")

\* How often the scaffolding of a message holds the reserved character ch
\* unescaped: the italic markers and two links of the head line, the bold
\* markers of the title and of the outcome, and one quote marker per quoted
\* line.
ScaffoldCount(ch, body) ==
  CASE ch \in {"_", "[", "]", "(", ")"} -> 2
    [] ch = "*" -> IF HasOutcome(body) THEN 4 ELSE 2
    [] ch = ">" -> 3 + (IF HasOutcome(body) THEN 2 ELSE 0) + LineBreaks(body)
    [] OTHER -> 0

\* The unescaped reserved characters of the text of call c are exactly the
\* scaffolding's.
OnlyScaffoldUnescaped(c) ==
  LET U == UnescapedAt(text[c])
  IN \A ch \in MarkupReserved :
       Cardinality({p \in U : text[c][p] = ch})
         = ScaffoldCount(ch, request[c].body)

\* C18: in a rendered text every reserved character that comes from the DAO
\* name, the title, the description or the winning choice is preceded by a
\* backslash: with links free of reserved characters, the only unescaped
\* reserved characters of the text are the scaffolding's.
C18_UserFieldsEscaped ==
  \A c \in Calls :
    (/\ pc[c] = "lookup"
     /\ ReservedFree(interpolate(request[c].body.url))
     /\ ReservedFree(interpolate(request[c].body.daoUrl)))
      => OnlyScaffoldUnescaped(c)

\* C18 witness: a title of two reserved characters was rendered with a
\* backslash before each.
C18_Witness ==
  /\ pc[1] = "lookup"
  /\ request[1].body.proposalTitle = <<"!", "*">>
  /\ Contains(text[1], <<"*", "\\", "!", "\\", "*", "*", "\n">>)

\* C19: every body string interpolated into the text (proposalId, daoName,
\* daoUrl, url, proposalTitle, proposalDescription, winningChoice) is escaped
\* first, so that the only unescaped reserved characters of any rendered
\* text are the scaffolding's.
C19_AllFieldsEscaped ==
  \A c \in Calls : pc[c] = "lookup" => OnlyScaffoldUnescaped(c)

(* ------------------------------------------------------ long descriptions *)

\* How far past MAX_DESCRIPTION_LENGTH the descriptions tried reach.
MaxOver == 2

\* A description of n characters: lead, then the character ch, with a line
\* break at position brk (none when brk = 0).
Description(lead, ch, brk, n) ==
  [k \in 1..n |->
     IF k <= Len(lead) THEN lead[k]
     ELSE IF k = brk THEN "\n"
     ELSE ch]

Leads == {<<>>, <<" ">>, <<"\n", " ">>}

\* Descriptions that the emphasis rule leaves as they are and that end
\* with a visible character.
Descriptions ==
  {Description(lead, ch, brk, n) :
     lead \in Leads, ch \in {"a", ".", "!"},
     brk \in {0, 250, MAX_DESCRIPTION_LENGTH},
     n \in (MAX_DESCRIPTION_LENGTH + 1 - MaxOver)
             ..(MAX_DESCRIPTION_LENGTH + MaxOver)}

\* One call whose description is about MAX_DESCRIPTION_LENGTH long.
InitTruncate ==
  /\ DB = TableOf(1)
  /\ \E t \in AllTypes, d \in Descriptions :
       request =
         [c \in Calls |->
            IF c = 1
              THEN [chainId |-> "c1", dao |-> "d1",
                    body |-> [BodyOf(t, NOTIFY_API_KEY, <<"T", "!">>)
                                EXCEPT !.proposalDescription = d]]
              ELSE NoRequest]
  /\ pc = [c \in Calls |-> IF c = 1 THEN "params" ELSE "off"]
  /\ text = [c \in Calls |-> <<>>]
  /\ registrations = [c \in Calls |-> <<>>]
  /\ succeeded = [c \in Calls |-> 0]
  /\ i = [c \in Calls |-> 0]
  /\ task = [c \in Calls |-> <<>>]
  /\ retry = [c \in Calls |-> <<>>]
  /\ response = [c \in Calls |-> NoResponse]
  /\ fetches = [c \in Calls |-> <<>>]
  /\ failures = [c \in Calls |-> 0]
  /\ lookups = [c \in Calls |-> 0]
  /\ provider = AllOk(DB)
  /\ NoHandlers

SpecTruncate == InitTruncate /\ [][RenderNext]_vars

\* What follows the title in every template.
AfterTitle == <<"*", "\n", ">", "\n", ">">>

\* The outcome line of the bodies tried, whose winning choice is "Y".
OutcomeLine ==
  <<"\n", ">", "\n", ">", "O", "u", "t", "c", "o", "m", "e", ":", " ", "*",
    "Y", "*">>

\* The description segment of a rendered text: what stands between the
\* first title end and the outcome line, or the end of the text.
Segment(c) ==
  LET t == text[c]
      at == CHOOSE p \in 1..Len(t) :
              /\ \A n \in 1..Len(AfterTitle) :
                   p + n - 1 <= Len(t) /\ t[p + n - 1] = AfterTitle[n]
              /\ \A q \in 1..(p - 1) :
                   \E n \in 1..Len(AfterTitle) :
                     q + n - 1 > Len(t) \/ t[q + n - 1] # AfterTitle[n]
      last == IF HasOutcome(request[c].body)
                THEN Len(t) - Len(OutcomeLine) ELSE Len(t)
  IN SubSeq(t, at + Len(AfterTitle), last)

\* The characters of s at the positions P from lo to hi, in order.
RECURSIVE Pick(_, _, _, _)
Pick(s, P, lo, hi) ==
  IF lo > hi THEN <<>>
  ELSE IF lo = hi THEN (IF lo \in P THEN <<s[lo]>> ELSE <<>>)
  ELSE Pick(s, P, lo, (lo + hi) \div 2)
         \o Pick(s, P, (lo + hi) \div 2 + 1, hi)

\* A segment as the chat shows it: without the backslashes that escape and
\* without the quote markers, which are its only unescaped ">".
Displayed(s) ==
  LET P == {p \in 1..Len(s) :
              /\ ~Escaping(s, p)
              /\ ~(s[p] = ">" /\ ~Escaped(s, p))}
  IN Pick(s, P, 1, Len(s))

Ellipsis == <<".", ".", ".">>

\* The sanitized description of call c is longer than the maximum.
LongDescription(c) ==
  /\ pc[c] = "lookup"
  /\ Len(removeMarkdown(request[c].body.proposalDescription))
       > MAX_DESCRIPTION_LENGTH

FirstCharacters(c) ==
  SubSeq(removeMarkdown(request[c].body.proposalDescription),
         1, MAX_DESCRIPTION_LENGTH)

\* C20 as stated: for a sanitized description longer than 500 characters the
\* segment shows exactly its first 500 characters and then the 3-character
\* ellipsis.
C20_Exactly500ThenEllipsis ==
  \A c \in Calls :
    LongDescription(c) =>
      Displayed(Segment(c)) = FirstCharacters(c) \o Ellipsis

\* C20 amended: for a sanitized description longer than 500 characters the
\* segment shows its first 500 characters without their leading white space
\* and then the ellipsis, so at most 500 characters before it; in the text
\* itself each dot of the ellipsis carries a backslash.
C20_TrimmedThenEllipsis ==
  \A c \in Calls :
    LongDescription(c) =>
      /\ Displayed(Segment(c)) = trimStart(FirstCharacters(c)) \o Ellipsis
      /\ Len(Segment(c)) >= 6
      /\ SubSeq(Segment(c), Len(Segment(c)) - 5, Len(Segment(c)))
           = <<"\\", ".", "\\", ".", "\\", ".">>

\* C20 witness: a description of 501 characters that begins with a blank was
\* rendered with 499 characters before the ellipsis.
C20_Witness ==
  /\ LongDescription(1)
  /\ Head(request[1].body.proposalDescription) = " "
  /\ Len(Displayed(Segment(1))) = MAX_DESCRIPTION_LENGTH + 2

(* -------------------------------------------------- two identical requests *)

\* Requests that pass validation.
ValidRequests ==
  {[chainId |-> ch, dao |-> "d1",
    body |-> BodyOf(t, NOTIFY_API_KEY, <<"T", "!">>)] :
     ch \in {"c1", "c2"}, t \in {Absent, NotifyType.ProposalExecuted}}

\* Calls 1 and 2 arrive with the same arguments and run interleaved.
InitTwo ==
  /\ DB \in {TableOf(n) : n \in 0..MaxSmallRegs}
  /\ \E r \in ValidRequests :
       request = [c \in Calls |-> IF c <= 2 THEN r ELSE NoRequest]
  /\ pc = [c \in Calls |-> IF c <= 2 THEN "params" ELSE "off"]
  /\ text = [c \in Calls |-> <<>>]
  /\ registrations = [c \in Calls |-> <<>>]
  /\ succeeded = [c \in Calls |-> 0]
  /\ i = [c \in Calls |-> 0]
  /\ task = [c \in Calls |-> <<>>]
  /\ retry = [c \in Calls |-> <<>>]
  /\ response = [c \in Calls |-> NoResponse]
  /\ fetches = [c \in Calls |-> <<>>]
  /\ failures = [c \in Calls |-> 0]
  /\ lookups = [c \in Calls |-> 0]
  /\ provider = AllOk(DB)
  /\ NoHandlers

SpecTwo == InitTwo /\ [][NotifyNext]_vars

\* The sends that reached the destination of row n: the tasks of any call
\* for it that ended in success.
Received(n) ==
  {<<c, k>> \in Calls \X (1..Len(DB)) :
     /\ k \in DOMAIN task[c]
     /\ task[c][k] = "true"
     /\ Destination(c, k) = RowDestination(DB[n])}

\* C12: notify keeps no memory of earlier calls: when two calls with the
\* same arguments have both returned and no send failed, each call reports
\* count = N, the number of registrations of the DAO, and each registered
\* destination has received the message twice.
C12_NotIdempotent ==
  (/\ Returned200(1) /\ Returned200(2)
   /\ request[1] = request[2]
   /\ failures[1] = 0 /\ failures[2] = 0)
    => /\ \A c \in {1, 2} :
            response[c].body.count = Cardinality(Matching(c))
       /\ \A n \in Matching(1) : Cardinality(Received(n)) = 2

\* C12 witness: two calls for a DAO with two registrations have both
\* returned count = 2 without a failed send.
C12_Witness ==
  /\ Returned200(1) /\ Returned200(2)
  /\ request[1] = request[2]
  /\ failures[1] = 0 /\ failures[2] = 0
  /\ Cardinality(Matching(1)) = 2
  /\ response[1].body.count = 2 /\ response[2].body.count = 2

(* ============================================================== telegram *)

WEBHOOK_SECRET == "secret"

BOT_USERNAME ==
  <<"d", "a", "o", "_", "d", "a", "o", "_", "n", "o", "t", "i", "f", "i",
    "e", "r", "_", "b", "o", "t">>

REPLY_ADD_INSTRUCTIONS ==
  <<"R", "e", "p", "l", "y", " ", "t", "o", " ", "t", "h", "i", "s", " ",
    "m", "e", "s", "s", "a", "g", "e", " ", "w", "i", "t", "h", " ", "t",
    "h", "e", " ", "D", "A", "O", "'", "s", " ", "a", "d", "d", "r", "e",
    "s", "s", " ", "o", "r", " ", "a", " ", "l", "i", "n", "k", " ", "t",
    "o", " ", "i", "t", "s", " ", "p", "a", "g", "e", " ", "t", "o", " ",
    "s", "t", "a", "r", "t", " ", "t", "r", "a", "c", "k", "i", "n", "g",
    " ", "i", "t", ".">>

REPLY_REMOVE_INSTRUCTIONS ==
  <<"R", "e", "p", "l", "y", " ", "t", "o", " ", "t", "h", "i", "s", " ",
    "m", "e", "s", "s", "a", "g", "e", " ", "w", "i", "t", "h", " ", "t",
    "h", "e", " ", "D", "A", "O", "'", "s", " ", "a", "d", "d", "r", "e",
    "s", "s", " ", "o", "r", " ", "a", " ", "l", "i", "n", "k", " ", "t",
    "o", " ", "i", "t", "s", " ", "p", "a", "g", "e", " ", "t", "o", " ",
    "s", "t", "o", "p", " ", "t", "r", "a", "c", "k", "i", "n", "g", " ",
    "i", "t", ".">>

\* const NO_RESPONSE = respond(200)
NO_RESPONSE == [status |-> 200, body |-> [empty |-> TRUE]]

(* ------------------------------------------------------- text of a message *)

\* String.prototype.startsWith, from position at + 1 on.
startsWithAt(s, at, p) ==
  /\ at + Len(p) <= Len(s)
  /\ \A n \in 1..Len(p) : s[at + n] = p[n]

startsWith(s, p) == startsWithAt(s, 0, p)

\* The lower-case form of a character, for the regex's i flag.
lower(ch) ==
  CASE ch = "A" -> "a"
    [] ch = "B" -> "b"
    [] ch = "C" -> "c"
    [] ch = "D" -> "d"
    [] ch = "E" -> "e"
    [] ch = "F" -> "f"
    [] ch = "G" -> "g"
    [] ch = "H" -> "h"
    [] ch = "I" -> "i"
    [] ch = "J" -> "j"
    [] ch = "K" -> "k"
    [] ch = "L" -> "l"
    [] ch = "M" -> "m"
    [] ch = "N" -> "n"
    [] ch = "O" -> "o"
    [] ch = "P" -> "p"
    [] ch = "Q" -> "q"
    [] ch = "R" -> "r"
    [] ch = "S" -> "s"
    [] ch = "T" -> "t"
    [] ch = "U" -> "u"
    [] ch = "V" -> "v"
    [] ch = "W" -> "w"
    [] ch = "X" -> "x"
    [] ch = "Y" -> "y"
    [] ch = "Z" -> "z"
    [] OTHER -> ch

startsWithAtI(s, at, p) ==
  /\ at + Len(p) <= Len(s)
  /\ \A n \in 1..Len(p) : lower(s[at + n]) = lower(p[n])

CmdAdd == <<"/", "a", "d", "d">>

CmdRemove == <<"/", "r", "e", "m", "o", "v", "e">>

CmdList == <<"/", "l", "i", "s", "t">>

CmdStart == <<"/", "s", "t", "a", "r", "t">>

CmdHelp == <<"/", "h", "e", "l", "p">>

\* The number of white space characters of s from position at + 1 on.
RECURSIVE spaces(_, _)
spaces(s, at) ==
  IF at < Len(s) /\ s[at + 1] \in WhiteSpace THEN 1 + spaces(s, at + 1) ELSE 0

\* text.replace(/^(\/add|\/remove)(@dao_dao_notifier_bot)?\s*/i, '')
stripCommand(t) ==
  LET cmd == IF startsWithAtI(t, 0, CmdAdd) THEN Len(CmdAdd)
             ELSE IF startsWithAtI(t, 0, CmdRemove) THEN Len(CmdRemove)
             ELSE 0
      mention == <<"@">> \o BOT_USERNAME
      bot == IF startsWithAtI(t, cmd, mention) THEN cmd + Len(mention)
             ELSE cmd
  IN IF cmd = 0 THEN t
     ELSE SubSeq(t, bot + spaces(t, bot) + 1, Len(t))

\* [a-zA-Z0-9]
Alnum ==
  {"a", "b", "c", "d", "e", "f", "g", "h", "i", "j", "k", "l", "m", "n",
   "o", "p", "q", "r", "s", "t", "u", "v", "w", "x", "y", "z", "A", "B",
   "C", "D", "E", "F", "G", "H", "I", "J", "K", "L", "M", "N", "O", "P",
   "Q", "R", "S", "T", "U", "V", "W", "X", "Y", "Z", "0", "1", "2", "3",
   "4", "5", "6", "7", "8", "9"}

UrlScheme ==
  <<"h", "t", "t", "p", "s", ":", "/", "/">>

UrlTestnet ==
  <<"t", "e", "s", "t", "n", "e", "t", ".">>

UrlPath ==
  <<"d", "a", "o", "d", "a", "o", ".", "z", "o", "n", "e", "/", "d", "a",
    "o", "/">>

\* The length of the run of [a-zA-Z0-9] of s from position at + 1 on.
RECURSIVE alnumRun(_, _)
alnumRun(s, at) ==
  IF at < Len(s) /\ s[at + 1] \in Alnum THEN 1 + alnumRun(s, at + 1) ELSE 0

\* Where the optional prefix p ends when taken (take = 1) at position at; -1
\* when it is taken and is not there.
afterOptional(s, at, p, take) ==
  IF at < 0 THEN 0 - 1
  ELSE IF take = 0 THEN at
  ELSE IF startsWithAt(s, at, p) THEN at + Len(p)
  ELSE 0 - 1

\* The ways of taking the three optional groups, in the order in which the
\* regex engine tries them: each group greedy, the last one given up first.
Takes ==
  <<<<1, 1, 1>>, <<1, 1, 0>>, <<1, 0, 1>>, <<1, 0, 0>>,
    <<0, 1, 1>>, <<0, 1, 0>>, <<0, 0, 1>>, <<0, 0, 0>>>>

\* .match(/(?:https:\/\/)?(?:testnet\.)?(?:daodao\.zone\/dao\/)?
\*        ([a-zA-Z0-9]+)/)?.[1]
\* Every way of matching starts with a character of [a-zA-Z0-9], so the
\* leftmost match starts at the first such character.
matchDao(s) ==
  LET P == {p \in 1..Len(s) : s[p] \in Alnum}
  IN IF P = {} THEN NoText
     ELSE LET first == (CHOOSE p \in P : \A q \in P : p <= q) - 1
              endOf(n) ==
                afterOptional(s,
                  afterOptional(s,
                    afterOptional(s, first, UrlScheme, Takes[n][1]),
                    UrlTestnet, Takes[n][2]),
                  UrlPath, Takes[n][3])
              ok(n) == endOf(n) >= 0 /\ alnumRun(s, endOf(n)) > 0
              n == CHOOSE m \in 1..Len(Takes) :
                     ok(m) /\ \A l \in 1..(m - 1) : ~ok(l)
          IN SubSeq(s, endOf(n) + 1, endOf(n) + alnumRun(s, endOf(n)))

\* The address as the string bound to the statements, for the addresses of
\* the DAOs of the tables.
bind(dao) ==
  CASE dao = <<"d", "1">> -> "d1"
    [] dao = <<"d", "2">> -> "d2"
    [] OTHER -> "other"

(* ----------------------------------------------------------- the update *)

isBotMembershipChange(data) == data.kind = "my_chat_member"

isMessage(data) == data.kind = "message" /\ data.text # <<>>

\* const messageThreadId = isMessage ? message_thread_id ?? undefined
\*                                   : undefined
messageThreadId(data) == IF isMessage(data) THEN data.thread ELSE Null

respondPlain(data, words) ==
  respond(200, [method |-> "sendMessage", chat_id |-> data.chat.id,
                message_thread_id |-> messageThreadId(data),
                parse_mode |-> "none", text |-> words])

respondMarkdown(data, words) ==
  respond(200, [method |-> "sendMessage", chat_id |-> data.chat.id,
                message_thread_id |-> messageThreadId(data),
                parse_mode |-> "MarkdownV2", text |-> words])

\* The reply the message answers, when the bot sent it.
repliesToBot(data) ==
  data.replyTo # NoText /\ data.replyFrom = BOT_USERNAME

\* let isAdd = text.startsWith('/add'), or detected from the reply
isAdd(data) ==
  \/ startsWith(data.text, CmdAdd)
  \/ /\ ~startsWith(data.text, CmdRemove)
     /\ repliesToBot(data)
     /\ \/ startsWith(data.replyTo, CmdAdd)
        \/ data.replyTo = REPLY_ADD_INSTRUCTIONS

\* let isRemove = text.startsWith('/remove'), or detected from the reply
isRemove(data) ==
  \/ startsWith(data.text, CmdRemove)
  \/ /\ ~startsWith(data.text, CmdAdd)
     /\ repliesToBot(data)
     /\ \/ startsWith(data.replyTo, CmdRemove)
        \/ data.replyTo = REPLY_REMOVE_INSTRUCTIONS

daoOf(data) == matchDao(stripCommand(data.text))

\* The rows of the destination of the update for the DAO: WHERE dao = ?
\* AND chatId = ? AND messageThreadId = ? (IS NULL without a thread).
ofDestination(row, data) ==
  /\ row.dao = bind(daoOf(data))
  /\ row.chatId = data.chat.id
  /\ row.messageThreadId = messageThreadId(data)

\* SELECT * FROM registrations WHERE chainId = ?1 AND dao = ?2 AND
\* chatId = ?3 AND messageThreadId ..., .first()
existing(rows, chainId, data) ==
  \E n \in DOMAIN rows : rows[n].chainId = chainId /\ ofDestination(rows[n], data)

\* CONSTRAINT unique_registration UNIQUE (chainId, dao, chatId,
\* messageThreadId): the insert fails when a row holds the same four values;
\* a NULL is distinct from every value, another NULL included, so a row
\* without a thread never conflicts.
uniqueViolation(rows, row) ==
  /\ row.messageThreadId # Null
  /\ \E n \in DOMAIN rows : rows[n] = row

\* What the indexer may answer for an address: nothing usable (an unknown
\* address, a failed fetch), or the chain of the DAO.
getDaoInfo(dao) ==
  IF bind(dao) \in {"d1", "d2"} THEN {Null, "c1", "c2"} ELSE {Null}

(* ---------------------------------------------------------- the handler *)

\* Lines 74-109: the secret, the body and the chat of the update.
TelegramEnter(h) ==
  /\ hpc[h] = "enter"
  /\ LET data == update[h]
     IN IF data.secret # WEBHOOK_SECRET
          THEN /\ reply' = [reply EXCEPT ![h] =
                              respondError(401, "Invalid webhook secret.")]
               /\ hpc' = [hpc EXCEPT ![h] = "done"]
        ELSE IF ~isBotMembershipChange(data) /\ ~isMessage(data)
          THEN /\ reply' = [reply EXCEPT ![h] = NO_RESPONSE]
               /\ hpc' = [hpc EXCEPT ![h] = "done"]
        ELSE /\ hpc' = [hpc EXCEPT ![h] =
                          IF isBotMembershipChange(data) THEN "membership"
                          ELSE IF data.chat.type # "private" THEN "admins"
                          ELSE "command"]
             /\ UNCHANGED reply
  /\ UNCHANGED <<DB, update, info>>
  /\ UNCHANGED <<nvars, provider>>

\* Variant of the cascade that deletes the rows without a thread only:
\* DELETE FROM registrations WHERE chatId = ?1 AND messageThreadId IS NULL.
TelegramMembership_mainThreadOnly(h) ==
  /\ hpc[h] = "membership"
  /\ LET data == update[h]
     IN /\ IF data.new \in {"left", "kicked"}
             THEN DB' = SelectSeq(DB, LAMBDA row :
                          ~(row.chatId = data.chat.id
                            /\ row.messageThreadId = Null))
             ELSE DB' = DB
        /\ reply' = [reply EXCEPT ![h] =
             IF /\ data.new \notin {"left", "kicked"}
                /\ ~(data.new = "restricted" /\ ~data.can_send_messages)
                /\ data.old \in {"left", "kicked"}
                /\ data.new \in {"member", "administrator", "creator"}
               THEN respondMarkdown(data, "Hello!")
               ELSE NO_RESPONSE]
  /\ hpc' = [hpc EXCEPT ![h] = "done"]
  /\ UNCHANGED <<update, info>>
  /\ UNCHANGED <<nvars, provider>>

\* Lines 151-191: a change of the bot's membership in the chat.
TelegramMembership(h) ==
  /\ hpc[h] = "membership"
  /\ LET data == update[h]
     IN /\ IF data.new \in {"left", "kicked"}
             THEN DB' = SelectSeq(DB, LAMBDA row :
                          row.chatId # data.chat.id)
             ELSE DB' = DB
        /\ reply' = [reply EXCEPT ![h] =
             IF /\ data.new \notin {"left", "kicked"}
                /\ ~(data.new = "restricted" /\ ~data.can_send_messages)
                /\ data.old \in {"left", "kicked"}
                /\ data.new \in {"member", "administrator", "creator"}
               THEN respondMarkdown(data, "Hello!")
               ELSE NO_RESPONSE]
  /\ hpc' = [hpc EXCEPT ![h] = "done"]
  /\ UNCHANGED <<update, info>>
  /\ UNCHANGED <<nvars, provider>>

\* Variant of the admin check that lets the sender through when the lookup
\* fails: only a list without the sender stops the command.
TelegramAdmins_failOpen(h) ==
  /\ hpc[h] = "admins"
  /\ IF update[h].admin # "no"
       THEN /\ hpc' = [hpc EXCEPT ![h] = "command"]
            /\ UNCHANGED reply
       ELSE /\ reply' = [reply EXCEPT ![h] = NO_RESPONSE]
            /\ hpc' = [hpc EXCEPT ![h] = "done"]
  /\ UNCHANGED <<DB, update, info>>
  /\ UNCHANGED <<nvars, provider>>

\* Lines 196-227: getChatAdministrators; data.admin is "yes" when the answer
\* is ok and lists the sender as administrator or creator.
TelegramAdmins(h) ==
  /\ hpc[h] = "admins"
  /\ IF update[h].admin = "yes"
       THEN /\ hpc' = [hpc EXCEPT ![h] = "command"]
            /\ UNCHANGED reply
       ELSE /\ reply' = [reply EXCEPT ![h] = NO_RESPONSE]
            /\ hpc' = [hpc EXCEPT ![h] = "done"]
  /\ UNCHANGED <<DB, update, info>>
  /\ UNCHANGED <<nvars, provider>>

\* Lines 229-315: the command of the message and the DAO it names.
TelegramCommand(h) ==
  /\ hpc[h] = "command"
  /\ LET data == update[h]
         listed == \E n \in DOMAIN DB :
                     /\ DB[n].chatId = data.chat.id
                     /\ DB[n].messageThreadId = messageThreadId(data)
         answer ==
           IF startsWith(data.text, CmdStart)
             THEN respondMarkdown(data, "Hello!")
           ELSE IF startsWith(data.text, CmdHelp)
             THEN respondMarkdown(data, "Here's how to use me:")
           ELSE IF startsWith(data.text, CmdList)
             THEN respondMarkdown(data,
                    IF listed THEN "You're tracking the following DAOs:"
                    ELSE "You're not tracking any DAOs.")
           ELSE IF ~isAdd(data) /\ ~isRemove(data) THEN NO_RESPONSE
           ELSE IF daoOf(data) = NoText
             THEN IF isAdd(data)
                    THEN respondPlain(data, "REPLY_ADD_INSTRUCTIONS")
                    ELSE respondPlain(data, "REPLY_REMOVE_INSTRUCTIONS")
           ELSE NoResponse
     IN IF answer = NoResponse
          THEN /\ hpc' = [hpc EXCEPT ![h] = "info"]
               /\ UNCHANGED reply
          ELSE /\ reply' = [reply EXCEPT ![h] = answer]
               /\ hpc' = [hpc EXCEPT ![h] = "done"]
  /\ UNCHANGED <<DB, update, info>>
  /\ UNCHANGED <<nvars, provider>>

\* Line 317 and lines 400-405: the indexer's answer for the DAO.
TelegramDaoInfo(h) ==
  /\ hpc[h] = "info"
  /\ \E answer \in getDaoInfo(daoOf(update[h])) :
       IF answer = Null
         THEN /\ reply' = [reply EXCEPT ![h] = respondPlain(update[h],
                   "I don't recognize the DAO address or link provided.")]
              /\ hpc' = [hpc EXCEPT ![h] = "done"]
              /\ UNCHANGED info
         ELSE /\ info' = [info EXCEPT ![h] = answer]
              /\ hpc' = [hpc EXCEPT ![h] = "existing"]
              /\ UNCHANGED reply
  /\ UNCHANGED <<DB, update>>
  /\ UNCHANGED <<nvars, provider>>

\* Lines 319-345 and 368, 391-398: the query for the registration, and the
\* answers that need no statement after it.
TelegramExisting(h) ==
  /\ hpc[h] = "existing"
  /\ LET data == update[h]
         found == existing(DB, info[h], data)
     IN IF isAdd(data) /\ found
          THEN /\ reply' = [reply EXCEPT ![h] =
                    respondMarkdown(data, "You're already tracking")]
               /\ hpc' = [hpc EXCEPT ![h] = "done"]
        ELSE IF ~isAdd(data) /\ ~found
          THEN /\ reply' = [reply EXCEPT ![h] =
                    respondMarkdown(data, "You're not tracking")]
               /\ hpc' = [hpc EXCEPT ![h] = "done"]
        ELSE /\ hpc' = [hpc EXCEPT ![h] =
                          IF isAdd(data) THEN "insert" ELSE "delete"]
             /\ UNCHANGED reply
  /\ UNCHANGED <<DB, update, info>>
  /\ UNCHANGED <<nvars, provider>>

\* Lines 347-365 and 406-417: the INSERT; a violated constraint throws, and
\* the catch answers with the error message.
TelegramInsert(h) ==
  /\ hpc[h] = "insert"
  /\ LET data == update[h]
         row == Row(info[h], bind(daoOf(data)), data.chat.id,
                    messageThreadId(data))
     IN IF uniqueViolation(DB, row)
          THEN /\ DB' = DB
               /\ reply' = [reply EXCEPT ![h] =
                    respondPlain(data, "An unexpected error ocurred.")]
          ELSE /\ DB' = Append(DB, row)
               /\ reply' = [reply EXCEPT ![h] =
                    respondMarkdown(data, "Got it!")]
  /\ hpc' = [hpc EXCEPT ![h] = "done"]
  /\ UNCHANGED <<update, info>>
  /\ UNCHANGED <<nvars, provider>>

\* Variant of the DELETE that names the chain of the registration found:
\* WHERE chainId = ? AND dao = ? AND chatId = ? AND messageThreadId ...
TelegramDelete_ofChain(h) ==
  /\ hpc[h] = "delete"
  /\ DB' = SelectSeq(DB, LAMBDA row :
             ~(row.chainId = info[h] /\ ofDestination(row, update[h])))
  /\ reply' = [reply EXCEPT ![h] =
       respondMarkdown(update[h], "Ok, you're no longer tracking")]
  /\ hpc' = [hpc EXCEPT ![h] = "done"]
  /\ UNCHANGED <<update, info>>
  /\ UNCHANGED <<nvars, provider>>

\* Variant of the DELETE without the thread: WHERE dao = ? AND chatId = ?
TelegramDelete_allThreads(h) ==
  /\ hpc[h] = "delete"
  /\ DB' = SelectSeq(DB, LAMBDA row :
             ~(/\ row.dao = bind(daoOf(update[h]))
               /\ row.chatId = update[h].chat.id))
  /\ reply' = [reply EXCEPT ![h] =
       respondMarkdown(update[h], "Ok, you're no longer tracking")]
  /\ hpc' = [hpc EXCEPT ![h] = "done"]
  /\ UNCHANGED <<update, info>>
  /\ UNCHANGED <<nvars, provider>>

\* Lines 369-390: the DELETE, by dao, chat and thread.
TelegramDelete(h) ==
  /\ hpc[h] = "delete"
  /\ DB' = SelectSeq(DB, LAMBDA row : ~ofDestination(row, update[h]))
  /\ reply' = [reply EXCEPT ![h] =
       respondMarkdown(update[h], "Ok, you're no longer tracking")]
  /\ hpc' = [hpc EXCEPT ![h] = "done"]
  /\ UNCHANGED <<update, info>>
  /\ UNCHANGED <<nvars, provider>>

TelegramNext ==
  \E h \in Handlers :
    \/ TelegramEnter(h)
    \/ TelegramMembership(h)
    \/ TelegramAdmins(h)
    \/ TelegramCommand(h)
    \/ TelegramDaoInfo(h)
    \/ TelegramExisting(h)
    \/ TelegramInsert(h)
    \/ TelegramDelete(h)

(* --------------------------------------------------- webhook requests tried *)

Group == [id |-> 101, type |-> "supergroup"]

Private == [id |-> 900, type |-> "private"]

TextAdd ==
  <<"/", "a", "d", "d", " ", "d", "1">>

TextAddLink ==
  <<"/", "a", "d", "d", " ", "h", "t", "t", "p", "s", ":", "/", "/", "d",
    "a", "o", "d", "a", "o", ".", "z", "o", "n", "e", "/", "d", "a", "o",
    "/", "d", "2">>

TextAddBare ==
  <<"/", "a", "d", "d">>

TextRemove ==
  <<"/", "r", "e", "m", "o", "v", "e", " ", "d", "1">>

TextRemoveMention ==
  <<"/", "r", "e", "m", "o", "v", "e", "@", "d", "a", "o", "_", "d", "a",
    "o", "_", "n", "o", "t", "i", "f", "i", "e", "r", "_", "b", "o", "t",
    " ", "d", "1">>

TextRemoveUnknown ==
  <<"/", "r", "e", "m", "o", "v", "e", " ", "n", "o", "p", "e">>

TextList ==
  <<"/", "l", "i", "s", "t">>

TextStart ==
  <<"/", "s", "t", "a", "r", "t">>

TextHelp ==
  <<"/", "h", "e", "l", "p">>

TextAddress ==
  <<"d", "1">>

Message(chat, thread, admin, words, replyTo) ==
  [secret |-> WEBHOOK_SECRET, kind |-> "message", chat |-> chat,
   thread |-> thread, old |-> "none", new |-> "none",
   can_send_messages |-> TRUE, text |-> words, admin |-> admin,
   replyTo |-> replyTo, replyFrom |-> BOT_USERNAME]

MyChatMember(chat, old, new) ==
  [secret |-> WEBHOOK_SECRET, kind |-> "my_chat_member", chat |-> chat,
   thread |-> Null, old |-> old, new |-> new,
   can_send_messages |-> FALSE, text |-> <<>>, admin |-> "no",
   replyTo |-> NoText, replyFrom |-> BOT_USERNAME]

\* Where a message comes from: the chat, the thread, and whether the
\* provider lists the sender as an administrator ("failed": no answer).
Senders ==
  {<<Group, Null, "yes">>, <<Group, "7", "yes">>, <<Group, Null, "no">>,
   <<Group, "7", "failed">>, <<Private, Null, "no">>}

Commands ==
  {TextAdd, TextAddLink, TextAddBare, TextRemove, TextRemoveMention,
   TextRemoveUnknown, TextList, TextStart, TextHelp}

Updates ==
  {Message(s[1], s[2], s[3], words, NoText) :
     s \in Senders, words \in Commands}
  \cup {Message(s[1], s[2], s[3], TextAddress, replyTo) :
          s \in {<<Group, Null, "yes">>, <<Private, Null, "no">>},
          replyTo \in {NoText, REPLY_ADD_INSTRUCTIONS,
                       REPLY_REMOVE_INSTRUCTIONS}}
  \cup {[Message(Private, Null, "no", TextAddress, TextRemove)
           EXCEPT !.replyFrom = <<"u">>]}
  \cup {MyChatMember(chat, "member", new) :
          chat \in {Group, Private},
          new \in {"left", "kicked", "restricted", "administrator"}}
  \cup {MyChatMember(Group, "left", "member")}
  \cup {[MyChatMember(Group, "member", "left") EXCEPT !.kind = "poll"]}
  \cup {[u EXCEPT !.secret = "wrong"] :
          u \in {MyChatMember(Group, "member", "left"),
                 Message(Private, Null, "no", TextRemove, NoText)}}

\* Tables without a repeated row: registrations of the two chats for the
\* two DAOs, on either chain and in either thread.
TelegramTables ==
  {<<>>,
   <<Row("c1", "d1", 101, Null)>>,
   <<Row("c1", "d1", 101, Null), Row("c1", "d1", 101, "7"),
     Row("c2", "d2", 101, Null), Row("c1", "d1", 900, Null),
     Row("c2", "d1", 900, Null), Row("c1", "d1", 902, Null)>>}

\* Two webhook requests arrive; no notify call runs.
InitTelegram ==
  /\ DB \in TelegramTables
  /\ update \in [Handlers -> Updates]
  /\ hpc = [h \in Handlers |-> "enter"]
  /\ info = [h \in Handlers |-> NoInfo]
  /\ reply = [h \in Handlers |-> NoResponse]
  /\ request = [c \in Calls |-> NoRequest]
  /\ pc = [c \in Calls |-> "off"]
  /\ text = [c \in Calls |-> <<>>]
  /\ registrations = [c \in Calls |-> <<>>]
  /\ succeeded = [c \in Calls |-> 0]
  /\ i = [c \in Calls |-> 0]
  /\ task = [c \in Calls |-> <<>>]
  /\ retry = [c \in Calls |-> <<>>]
  /\ response = [c \in Calls |-> NoResponse]
  /\ fetches = [c \in Calls |-> <<>>]
  /\ failures = [c \in Calls |-> 0]
  /\ lookups = [c \in Calls |-> 0]
  /\ provider = AllOk(DB)

SpecTelegram == InitTelegram /\ [][TelegramNext]_vars

(* ------------------------------------------------- claims on the webhook *)

\* C15: the table holds at most one row per (chainId, dao, chatId,
\* messageThreadId), whatever handlers have run and however they
\* interleaved.
C15_UniqueRegistrations ==
  \A m, n \in DOMAIN DB : m # n => DB[m] # DB[n]

\* Handler h takes a step.
Steps(h) == hpc'[h] # hpc[h]

\* Handler h returns its Response.
Returns(h) == hpc[h] # "done" /\ hpc'[h] = "done"

\* Every row of the table after the step was in it before, as often.
NothingInserted ==
  \A row \in {DB'[n] : n \in DOMAIN DB'} :
    Cardinality({n \in DOMAIN DB' : DB'[n] = row})
      <= Cardinality({n \in DOMAIN DB : DB[n] = row})

\* The destination the update of h comes from is registered in rows for the
\* DAO the message names, on any chain.
Registered(rows, h) ==
  \E n \in DOMAIN rows :
    /\ rows[n].dao = bind(daoOf(update[h]))
    /\ rows[n].chatId = update[h].chat.id
    /\ rows[n].messageThreadId = update[h].thread

RemoveMessage(h) ==
  /\ update[h] # NoUpdate
  /\ update[h].kind = "message"
  /\ startsWith(update[h].text, CmdRemove)

\* The request of h carries the secret, and its sender may use commands:
\* the chat is private, or the provider lists the sender as administrator
\* or creator.
Authorised(h) ==
  /\ update[h].secret = WEBHOOK_SECRET
  /\ update[h].chat.type = "private" \/ update[h].admin = "yes"

C17_CascadeDelete ==
  [][\A h \in Handlers :
       (/\ Returns(h)
        /\ update[h].secret = WEBHOOK_SECRET
        /\ update[h].kind = "my_chat_member"
        /\ update[h].new \in {"left", "kicked"}) =>
         LET C == update[h].chat.id
             others == {n \in DOMAIN DB : DB[n].chatId # C}
         IN /\ Len(DB') = Cardinality(others)
            /\ \A n \in DOMAIN DB' : DB'[n].chatId # C
            /\ \A m, n \in others :
                 m < n =>
                   \E k, l \in DOMAIN DB' :
                     k < l /\ DB'[k] = DB[m] /\ DB'[l] = DB[n]
            /\ \A n \in others : \E k \in DOMAIN DB' : DB'[k] = DB[n]
            /\ \A chainId \in {"c1", "c2"}, dao \in {"d1", "d2"} :
                 LET found == selectRegistrations(DB', chainId, dao)
                 IN \A k \in DOMAIN found : found[k].chatId # C]_vars

\* C17 witness: the bot has left the group; the table holds the three rows
\* of other chats that only the largest table has, and none of the group,
\* for which that table had three.
C17_Witness ==
  \E h \in Handlers :
    /\ hpc[h] = "done"
    /\ update[h] = MyChatMember(Group, "member", "left")
    /\ reply[h] = NO_RESPONSE
    /\ \A n \in DOMAIN DB : DB[n].chatId # Group.id
    /\ Cardinality({n \in DOMAIN DB : DB[n].chatId \in {900, 902}}) = 3

(* ------------------------------------------------- quoted lines, outcome *)

\* C21: every line of the description segment starts with the quote marker:
\* the segment follows the ">" that ends the title's part of the template,
\* and each of its line breaks is followed by ">".
C21_EveryLineQuoted ==
  \A c \in Calls :
    (pc[c] = "lookup" /\ request[c].body.winningChoice = <<"Y">>) =>
      LET t == text[c]
          s == Segment(c)
          start == Len(t) - Len(s)
                     - (IF HasOutcome(request[c].body)
                          THEN Len(OutcomeLine) ELSE 0)
      IN /\ start >= 1 /\ t[start] = ">"
         /\ s # <<>> => s[Len(s)] # "\n"
         /\ \A p \in 1..Len(s) :
              s[p] = "\n" => (p < Len(s) /\ s[p + 1] = ">")

\* C21 witness: a description of two lines was rendered as two quoted lines.
C21_Witness ==
  /\ pc[1] = "lookup"
  /\ request[1].body.proposalDescription = <<"a", "\n", "a">>
  /\ request[1].body.winningChoice = <<"Y">>
  /\ Segment(1) = <<"a", "\n", ">", "a">>

OutcomeLabel ==
  <<"O", "u", "t", "c", "o", "m", "e", ":">>

\* C22: a rendered text holds an "Outcome:" line exactly when the kind is
\* proposal_executed or proposal_execution_failed and the body has a
\* winning choice that is not empty; the texts of proposal_created and
\* proposal_closed never hold it.
C22_OutcomeLine ==
  \A c \in Calls :
    pc[c] = "lookup" =>
      (Contains(text[c], OutcomeLabel)
         <=> /\ request[c].body.type
                  \in {"proposal_executed", "proposal_execution_failed"}
             /\ request[c].body.winningChoice \notin {NoText, <<>>})

\* C22 witness: a proposal_closed body with a winning choice was rendered
\* without the line.
C22_Witness ==
  /\ pc[1] = "lookup"
  /\ request[1].body.type = "proposal_closed"
  /\ request[1].body.winningChoice = <<"Y">>
  /\ ~Contains(text[1], OutcomeLabel)

(* ------------------------------------------------------------ the batches *)

\* The positions whose task the step starts.
Started(c) ==
  {k \in DOMAIN task[c] : task[c][k] # "fetch" /\ task'[c][k] = "fetch"}

\* C24: the batches of a call partition its lookup result in order: the
\* batch that starts at offset 10j holds the positions 10j+1 .. 10j+10 of
\* the result that exist and none of them was in a batch before; it has 10
\* positions unless it is the last, which has 1 to 10; a returned call has
\* run ceil(N/10) batches and left no position out.
C24_BatchesPartition ==
  /\ [][\A c \in Calls :
          (pc[c] = "loop" /\ pc'[c] = "await") =>
            LET N == Len(registrations[c])
                j == i[c] \div 10
            IN /\ i[c] = 10 * j
               /\ Started(c) = {k \in 1..N : 10 * j + 1 <= k /\ k <= 10 * j + 10}
               /\ \A k \in Started(c) : task[c][k] = "none"
               /\ Cardinality(Started(c)) \in 1..10
               /\ 10 * j + 10 < N => Cardinality(Started(c)) = 10]_vars
  /\ [][\A c \in Calls :
          (pc[c] = "await" /\ pc'[c] = "loop") => i'[c] = i[c] + 10]_vars
  /\ [](\A c \in Calls :
          Returned200(c) =>
            /\ i[c] = 10 * ((Len(registrations[c]) + 9) \div 10)
            /\ \A k \in DOMAIN task[c] : task[c][k] # "none")

\* C24 witness: a call with more than 10 registrations is in its second
\* batch, which holds the positions after the tenth.
C24_Witness ==
  /\ pc[1] = "await"
  /\ Len(registrations[1]) > 10
  /\ i[1] = 10
  /\ \A k \in 11..Len(registrations[1]) : task[1][k] = "fetch"
  /\ \A k \in 1..10 : task[1][k] \in {"true", "false"}

(* ------------------------------------------------------------ termination *)

\* The steps of call c.
CallNext(c) ==
  \/ NotifyParams(c)
  \/ NotifyBody(c)
  \/ NotifyLookup(c)
  \/ NotifyBatch(c)
  \/ \E k \in DOMAIN task[c] : FetchResolves(c, k)
  \/ \E k \in DOMAIN task[c] : FetchThrows(c, k)
  \/ NotifyBatchDone(c)
  \/ NotifyReturn(c)

\* One notify call without a type, for any other arguments, on any of the
\* tables.
InitFair == Init /\ request[1].body.type = Absent

\* Every call goes on while it can: the runtime runs the handler, the table
\* answers the query, and each fetch issued resolves or throws in the end.
SpecFair ==
  InitFair /\ [][Next]_vars /\ \A c \in Calls : WF_vars(CallNext(c))

Ended(c) == pc[c] \in {"done", "thrown"}

\* No call is under way.
AllEnded == \A c \in Calls : pc[c] = "off" \/ Ended(c)

\* C23: every call that has started ends, and one that reached the lookup
\* ends with its response; it sends at most 3 times to each of its N
\* registrations, so at most 3N times; and until it has ended one of its
\* own steps (a validation, the lookup, a batch, a send that settles) is
\* possible, so it never waits for another call.
C23_Terminates ==
  /\ <>[]AllEnded
  /\ [](\A c \in Calls : (Ended(c) /\ lookups[c] > 0) => Returned200(c))
  /\ [](\A c \in Calls : \A k \in DOMAIN fetches[c] : fetches[c][k] <= 3)
  /\ [](\A c \in Calls : (pc[c] # "off" /\ ~Ended(c)) => ENABLED CallNext(c))

\* C23 witness: a returned call had one registration and sent to it 3 times.
C23_Witness ==
  /\ Returned200(1)
  /\ \E k \in DOMAIN fetches[1] : fetches[1][k] = 3 /\ task[1][k] = "false"

(* --------------------------------------------------------- overlapping calls *)

\* The requests of two calls that overlap: for the same DAO or for two DAOs.
OverlapRequests ==
  {[chainId |-> "c1", dao |-> d,
    body |-> BodyOf(Absent, NOTIFY_API_KEY, <<"T", "!">>)] :
     d \in {"d1", "d2"}}

\* Calls 1 and 2 arrive with arguments chosen independently and run
\* interleaved.
InitOverlap ==
  /\ DB \in {TableOf(n) : n \in 1..MaxSmallRegs}
  /\ \E r1 \in OverlapRequests, r2 \in OverlapRequests :
       request = [c \in Calls |->
                    IF c = 1 THEN r1 ELSE IF c = 2 THEN r2 ELSE NoRequest]
  /\ pc = [c \in Calls |-> IF c <= 2 THEN "params" ELSE "off"]
  /\ text = [c \in Calls |-> <<>>]
  /\ registrations = [c \in Calls |-> <<>>]
  /\ succeeded = [c \in Calls |-> 0]
  /\ i = [c \in Calls |-> 0]
  /\ task = [c \in Calls |-> <<>>]
  /\ retry = [c \in Calls |-> <<>>]
  /\ response = [c \in Calls |-> NoResponse]
  /\ fetches = [c \in Calls |-> <<>>]
  /\ failures = [c \in Calls |-> 0]
  /\ lookups = [c \in Calls |-> 0]
  /\ provider = AllOk(DB)
  /\ NoHandlers

SpecOverlap == InitOverlap /\ [][NotifyNext]_vars

\* What a call keeps between its steps: its position and its locals.
Locals(c) ==
  <<pc[c], text[c], registrations[c], succeeded[c], i[c], task[c], retry[c],
    response[c], fetches[c], failures[c], lookups[c]>>

\* A returned call has worked on its own lookup result: every destination of
\* it was attempted, and the count is the number of its own successes.
OwnDispatch(c) ==
  /\ registrations[c]
       = selectRegistrations(DB, request[c].chainId, request[c].dao)
  /\ DOMAIN task[c] = 1..Len(registrations[c])
  /\ \A k \in DOMAIN task[c] : fetches[c][k] >= 1 /\ Terminal(c, k)
  /\ response[c].body.count = Cardinality(Succeeded(c))

\* C25: two notify calls that overlap, for the same DAO or for different
\* DAOs, share no dispatch state: no step changes the locals of two calls, and
\* in every interleaving each returned call has attempted every destination
\* of its own lookup and returns its own success count.
C25_CallsIndependent ==
  /\ [][\A c \in Calls, d \in Calls :
          (Locals(c)' # Locals(c) /\ Locals(d)' # Locals(d)) => c = d]_vars
  /\ [](\A c \in Calls : Returned200(c) => OwnDispatch(c))

\* C25 witness: calls for two DAOs have both returned, with different counts:
\* call 1 had failed sends, call 2 had none.
C25_Witness ==
  /\ Returned200(1) /\ Returned200(2)
  /\ request[1].dao # request[2].dao
  /\ response[1].body.count # response[2].body.count
  /\ failures[1] > 0 /\ failures[2] = 0

(* ------------------------------------------------------ order of the steps *)

\* The backslash at p opens an escape: reading from the left, it is not
\* itself taken by the backslash before it.
Opens(s, p) == s[p] = "\\" /\ RunBefore(s, p) % 2 = 0

\* The sanitized description, cut to the maximum with the ellipsis.
Truncated(c) ==
  IF LongDescription(c) THEN FirstCharacters(c) \o Ellipsis
  ELSE removeMarkdown(request[c].body.proposalDescription)

\* C26: the description is sanitized, then cut to 500, then escaped, so the
\* cut never falls inside an escape: in the description segment every
\* backslash that opens an escape is followed by a reserved character, every
\* reserved character other than a quote marker is escaped, and the segment
\* shows the cut description (without the white space around it).
C26_NoEscapeCutInTwo ==
  \A c \in Calls :
    pc[c] = "lookup" =>
      LET s == Segment(c)
      IN /\ \A p \in 1..Len(s) :
              Opens(s, p) => (p < Len(s) /\ s[p + 1] \in ReservedChars)
         /\ \A p \in 1..Len(s) :
              (s[p] \in ReservedChars /\ ~Opens(s, p) /\ ~Escaped(s, p))
                => (s[p] = ">" /\ p > 1 /\ s[p - 1] = "\n")
         /\ Displayed(s) = trim(Truncated(c))

\* C26 witness: a long description was rendered whose 500th character is
\* reserved and stands at an even position, where a cut of the escaped text
\* at 500 would fall between a backslash and its character.
C26_Witness ==
  /\ LongDescription(1)
  /\ request[1].body.proposalDescription[1] = " "
  /\ request[1].body.proposalDescription[MAX_DESCRIPTION_LENGTH] = "."
  /\ request[1].body.proposalDescription[2] = "."
  /\ Opens(Segment(1), Len(Segment(1)) - 7)

(* ------------------------------------------------------ the HTTP status *)

\* One call for a DAO with registrations, while the provider answers any of
\* the statuses to each destination.
InitStatus ==
  /\ DB \in {TableOf(n) : n \in 1..MaxSmallRegs}
  /\ provider \in [DestinationsOf(DB) -> Statuses]
  /\ \E r \in OverlapRequests :
       request = [c \in Calls |-> IF c = 1 THEN r ELSE NoRequest]
  /\ pc = [c \in Calls |-> IF c = 1 THEN "params" ELSE "off"]
  /\ text = [c \in Calls |-> <<>>]
  /\ registrations = [c \in Calls |-> <<>>]
  /\ succeeded = [c \in Calls |-> 0]
  /\ i = [c \in Calls |-> 0]
  /\ task = [c \in Calls |-> <<>>]
  /\ retry = [c \in Calls |-> <<>>]
  /\ response = [c \in Calls |-> NoResponse]
  /\ fetches = [c \in Calls |-> <<>>]
  /\ failures = [c \in Calls |-> 0]
  /\ lookups = [c \in Calls |-> 0]
  /\ NoHandlers

SpecStatus == InitStatus /\ [][NotifyNext]_vars

\* The status the provider answers to the send of position k of call c.
StatusOf(c, k) == provider[Destination(c, k)]

\* The send of position k of call c moves in this step.
Moves(c, k) ==
  /\ k \in DOMAIN task[c]
  /\ task[c][k] = "fetch"
  /\ <<task[c][k], retry[c][k], fetches[c][k]>>'
       # <<task[c][k], retry[c][k], fetches[c][k]>>

\* C27: a send succeeds exactly when the HTTP call completes without
\* throwing, whatever status the provider answers: a send that ends without a
\* throw ends in Success and is not sent again, a send ends in Success only
\* without a throw, and a call none of whose sends threw counts every
\* destination after one send each, also where the answer is 403 or 429.
C27_StatusNotInspected ==
  /\ [][\A c \in Calls : \A k \in DOMAIN task[c] :
          Moves(c, k) =>
            IF failures'[c] = failures[c]
              THEN /\ task'[c][k] = "true"
                   /\ fetches'[c][k] = fetches[c][k]
              ELSE task'[c][k] # "true"]_vars
  /\ [](\A c \in Calls :
          (Returned200(c) /\ failures[c] = 0) =>
            /\ response[c].body.count = Len(registrations[c])
            /\ \A k \in DOMAIN task[c] : fetches[c][k] = 1)

\* C27 witness: a call has returned count = 2 after one send to each of two
\* destinations, to which the provider answers 403 and 429.
C27_Witness ==
  /\ Returned200(1)
  /\ Len(registrations[1]) = 2
  /\ response[1].body.count = 2
  /\ StatusOf(1, 1) = 403 /\ StatusOf(1, 2) = 429
  /\ fetches[1][1] = 1 /\ fetches[1][2] = 1

(* ------------------------------------------- dispatch beside the webhook *)

\* Webhook requests that change the registrations of ("c1", "d1"): a removal
\* from the group's main thread, an addition from its topic 7, and the bot
\* being removed from the group.
SnapshotUpdates ==
  {Message(Group, Null, "yes", TextRemove, NoText),
   Message(Group, "7", "yes", TextAdd, NoText),
   MyChatMember(Group, "member", "kicked")}

\* One notify call for ("c1", "d1") and two webhook requests arrive together.
InitBoth ==
  /\ DB = <<Row("c1", "d1", 101, Null), Row("c1", "d1", 900, Null)>>
  /\ update \in [Handlers -> SnapshotUpdates]
  /\ hpc = [h \in Handlers |-> "enter"]
  /\ info = [h \in Handlers |-> NoInfo]
  /\ reply = [h \in Handlers |-> NoResponse]
  /\ request =
       [c \in Calls |->
          IF c = 1
            THEN [chainId |-> "c1", dao |-> "d1",
                  body |-> BodyOf(Absent, NOTIFY_API_KEY, <<"T", "!">>)]
            ELSE NoRequest]
  /\ pc = [c \in Calls |-> IF c = 1 THEN "params" ELSE "off"]
  /\ text = [c \in Calls |-> <<>>]
  /\ registrations = [c \in Calls |-> <<>>]
  /\ succeeded = [c \in Calls |-> 0]
  /\ i = [c \in Calls |-> 0]
  /\ task = [c \in Calls |-> <<>>]
  /\ retry = [c \in Calls |-> <<>>]
  /\ response = [c \in Calls |-> NoResponse]
  /\ fetches = [c \in Calls |-> <<>>]
  /\ failures = [c \in Calls |-> 0]
  /\ lookups = [c \in Calls |-> 0]
  /\ provider = AllOk(DB)

NextBoth == NotifyNext \/ TelegramNext

SpecBoth == InitBoth /\ [][NextBoth]_vars

\* The lookup of call c is over.
LookedUp(c) == pc[c] \in {"loop", "await", "done", "thrown"}

\* The row is in the table.
Stored(row) == \E n \in DOMAIN DB : DB[n] = row

\* C28: the destinations of a call are the registrations at its lookup: once
\* the lookup is over no step, of the call or of a webhook handler, changes
\* the call's list; every position of the list is sent to, whether or not its
\* row is still in the table; and a returned call has sent to every position.
C28_SnapshotAtLookup ==
  /\ [][\A c \in Calls :
          LookedUp(c) => registrations'[c] = registrations[c]]_vars
  /\ [][\A c \in Calls :
          (pc[c] = "loop" /\ pc'[c] = "await") =>
            \A k \in batch(registrations[c], i[c]) :
              task'[c][k] = "fetch" /\ fetches'[c][k] = fetches[c][k] + 1]_vars
  /\ [](\A c \in Calls :
          Returned200(c) =>
            /\ DOMAIN task[c] = 1..Len(registrations[c])
            /\ \A k \in DOMAIN task[c] : fetches[c][k] >= 1)

\* C28 witness: the call returned count = 2 for the two registrations of its
\* lookup; the first of them, removed since, received the message, and the
\* registration added since is not among the call's destinations.
C28_Witness ==
  /\ Returned200(1)
  /\ Len(registrations[1]) = 2
  /\ response[1].body.count = 2
  /\ task[1][1] = "true"
  /\ ~Stored(registrations[1][1])
  /\ Stored(Row("c1", "d1", 101, "7"))

(* ------------------------------------------------------ scope of /remove *)

\* The update of h is a message the handler takes as a removal.
RemoveCommand(h) ==
  /\ update[h] # NoUpdate
  /\ update[h].kind = "message"
  /\ isRemove(update[h])

\* The row registers the destination the update of h comes from for the DAO
\* the message names.
OfCommand(row, h) ==
  /\ row.dao = bind(daoOf(update[h]))
  /\ row.chatId = update[h].chat.id
  /\ row.messageThreadId = update[h].thread

\* The rows of the table that satisfy keep, in their order.
RowsWhere(rows, keep(_)) == SelectSeq(rows, keep)

\* C29: a step of the handler of a removal from destination (C, T) for DAO D
\* leaves the table as it is or without the rows of (C, T) for D: the rows of
\* other chats, of other threads of C and of other DAOs stay, in their order,
\* no row is added, and when (C, T) is not registered for D the table is
\* unchanged.
C29_RemoveOnlyOwn ==
  [][\A h \in Handlers :
       (RemoveCommand(h) /\ Steps(h)) =>
         LET other(row) == ~OfCommand(row, h)
         IN /\ RowsWhere(DB', other) = RowsWhere(DB, other)
            /\ DB' = DB \/ DB' = RowsWhere(DB, other)
            /\ (\A n \in DOMAIN DB : other(DB[n])) => DB' = DB]_vars

\* C29 witness: a removal of "d1" from topic 7 of the group was confirmed;
\* of the six registrations only the one of topic 7 is gone, the one of the
\* group's main thread for the same DAO is still there.
C29_Witness ==
  \E h \in Handlers :
    /\ hpc[h] = "done"
    /\ update[h] = Message(Group, "7", "yes", TextRemove, NoText)
    /\ reply[h] = respondMarkdown(update[h], "Ok, you're no longer tracking")
    /\ Len(DB) = 5
    /\ Stored(Row("c1", "d1", 101, Null))
    /\ ~Stored(Row("c1", "d1", 101, "7"))

(* ------------------------------------------------- who may change the table *)

\* The request of h carries the configured secret.
HasSecret(h) == update[h].secret = WEBHOOK_SECRET

\* The update of h is a message in a chat that is not private, whose sender
\* the provider does not list as administrator or creator (or the lookup
\* failed).
NonAdminMessage(h) ==
  /\ update[h].kind = "message"
  /\ update[h].chat.type # "private"
  /\ update[h].admin # "yes"

\* C30: a step of a webhook handler changes the table only when the request
\* carries the secret and, for a message in a non-private chat, the sender is
\* listed as administrator or creator; a request with a wrong secret is
\* answered 401 and a message of a non-admin (or after a failed admin lookup)
\* with an empty 200, and no step of either handler changes the table.
C30_OnlyAuthorisedWrites ==
  [][\A h \in Handlers :
       Steps(h) =>
         /\ DB' # DB => (HasSecret(h) /\ ~NonAdminMessage(h))
         /\ (~HasSecret(h) /\ Returns(h)) =>
              (reply'[h].status = 401 /\ DB' = DB)
         /\ (HasSecret(h) /\ NonAdminMessage(h) /\ Returns(h)) =>
              (reply'[h] = NO_RESPONSE /\ DB' = DB)]_vars

\* C30 witness: a membership update with a wrong secret was answered 401 and
\* a /remove of a non-admin from the registered group with the empty 200,
\* and the table has its six rows.
C30_Witness ==
  \E h \in Handlers, g \in Handlers :
    /\ hpc[h] = "done" /\ hpc[g] = "done"
    /\ update[h] = [MyChatMember(Group, "member", "left")
                      EXCEPT !.secret = "wrong"]
    /\ reply[h].status = 401
    /\ update[g] = Message(Group, Null, "no", TextRemove, NoText)
    /\ reply[g] = NO_RESPONSE
    /\ Registered(DB, g)
    /\ Len(DB) = 6

(* ------------------------------------------------- the escaped characters *)

\* Characters of a title: a letter, a digit, comma, colon, slash, and three
\* of the reserved set.
EscapeAlphabet == {"a", "4", ",", ":", "/", ".", "-", "\\"}

RECURSIVE Titles(_)
Titles(n) ==
  IF n = 0 THEN {<<>>}
  ELSE Titles(n - 1)
         \cup {Append(s, ch) : s \in Titles(n - 1), ch \in EscapeAlphabet}

\* One call whose title is any string over EscapeAlphabet.
InitEscape ==
  /\ DB = TableOf(1)
  /\ \E t \in {Absent, NotifyType.ProposalExecuted}, s \in Titles(MaxLen) :
       request =
         [c \in Calls |->
            IF c = 1
              THEN [chainId |-> "c1", dao |-> "d1",
                    body |-> BodyOf(t, NOTIFY_API_KEY, s)]
              ELSE NoRequest]
  /\ pc = [c \in Calls |-> IF c = 1 THEN "params" ELSE "off"]
  /\ text = [c \in Calls |-> <<>>]
  /\ registrations = [c \in Calls |-> <<>>]
  /\ succeeded = [c \in Calls |-> 0]
  /\ i = [c \in Calls |-> 0]
  /\ task = [c \in Calls |-> <<>>]
  /\ retry = [c \in Calls |-> <<>>]
  /\ response = [c \in Calls |-> NoResponse]
  /\ fetches = [c \in Calls |-> <<>>]
  /\ failures = [c \in Calls |-> 0]
  /\ lookups = [c \in Calls |-> 0]
  /\ provider = AllOk(DB)
  /\ NoHandlers

SpecEscape == InitEscape /\ [][RenderNext]_vars

\* s with one backslash before each of its characters that is in the
\* reserved set of the markup dialect, and every other character as it is.
RECURSIVE BackslashReserved(_)
BackslashReserved(s) ==
  IF s = <<>> THEN <<>>
  ELSE (IF Head(s) \in MarkupReserved THEN <<"\\", Head(s)>> ELSE <<Head(s)>>)
         \o BackslashReserved(Tail(s))

\* C31: escapeMarkdownV2 puts one backslash before a character exactly when
\* the character is one of the 19 reserved ones, and copies every other
\* character (letters, digits, comma, colon, slash) unchanged and in order:
\* the title of a rendered text stands in it escaped in that way.
C31_EscapesExactlyReserved ==
  \A c \in Calls :
    pc[c] = "lookup" =>
      LET title == request[c].body.proposalTitle
      IN /\ escapeMarkdownV2(title) = BackslashReserved(title)
         /\ Contains(text[c],
                     <<">", "*">> \o BackslashReserved(title) \o T_TitleEnd)

====
